---------------------------- MODULE Spec2Model ----------------------------
(***************************************************************************)
(* Model of the doc-grounding repository: the document structuring engine  *)
(* (src/document_processor.py) and the structured-document editor          *)
(* (src/document_editor.py).                                               *)
(*                                                                         *)
(* Strings that the code indexes (the text, the sentences, the lines) are  *)
(* sequences of one-character strings; offsets are 0-based as in Python.   *)
(* Identifiers (doc_id, sentence ids, metadata keys) are TLA+ strings.     *)
(***************************************************************************)
EXTENDS Integers, Sequences, FiniteSets, TLC

\* ------------------------------------------------------------------------
\* Bounds of the model
\* ------------------------------------------------------------------------

\* Longest input text, in characters.
MaxTextLen == 3

\* Longest sentence string the primary tokenizer may return.
MaxSentLen == 2

\* Most sentence strings the primary tokenizer may return.
MaxSents == 2

\* Characters of the input texts: a letter, a terminal punctuation mark and
\* the two kinds of whitespace the code distinguishes (blank and newline).
Chars == {"a", ".", " ", "\n"}

\* ------------------------------------------------------------------------
\* Python's str operations, as the code uses them
\* ------------------------------------------------------------------------

Min(a, b) == IF a < b THEN a ELSE b

\* All sequences over S of length 0..n.
SeqsUpTo(S, n) == UNION {[1..k -> S] : k \in 0..n}

\* str.isspace() of one character (the whitespace of Chars).
IsSpace(c) == c \in {" ", "\n"}

\* s[i:j] of Python for 0 <= i: the characters at offsets i .. j-1, clamped
\* to the string.
Slice(s, i, j) == SubSeq(s, i + 1, Min(j, Len(s)))

\* str.strip(): without leading and trailing whitespace.
Strip(s) ==
    LET idx == {i \in 1..Len(s) : ~IsSpace(s[i])}
    IN  IF idx = {} THEN <<>>
        ELSE LET lo == CHOOSE i \in idx : \A j \in idx : i <= j
                 hi == CHOOSE i \in idx : \A j \in idx : j <= i
             IN  SubSeq(s, lo, hi)

\* ' '.join(s.split()): every run of whitespace collapsed to one blank, and
\* none at either end.
RECURSIVE CollapseWS(_)
CollapseWS(s) ==
    IF s = <<>> THEN <<>>
    ELSE IF IsSpace(Head(s))
         THEN IF Len(s) > 1 /\ IsSpace(s[2])
              THEN CollapseWS(Tail(s))
              ELSE <<" ">> \o CollapseWS(Tail(s))
         ELSE <<Head(s)>> \o CollapseWS(Tail(s))

NormalizeWS(s) == CollapseWS(Strip(s))

\* str.find(sub, start) for 0 <= start: the lowest offset i >= start with
\* s[i:i+len(sub)] == sub, or -1.
Find(s, sub, start) ==
    LET hits == {i \in start..(Len(s) - Len(sub)) : Slice(s, i, i + Len(sub)) = sub}
    IN  IF hits = {} THEN -1
        ELSE CHOOSE i \in hits : \A j \in hits : i <= j

\* str.split('\n'): the segments between newlines (n newlines give n+1
\* segments, empty ones included).
RECURSIVE SplitLines(_)
SplitLines(s) ==
    LET nl == {i \in 1..Len(s) : s[i] = "\n"}
    IN  IF nl = {} THEN <<s>>
        ELSE LET p == CHOOSE i \in nl : \A j \in nl : i <= j
             IN  <<SubSeq(s, 1, p - 1)>> \o SplitLines(SubSeq(s, p + 1, Len(s)))

\* re.split(r'(?<=[.!?])\s+', text): cut at every maximal run of whitespace
\* that directly follows '.', '!' or '?'; the run itself is dropped.
RECURSIVE RegexSplit(_)
RegexSplit(s) ==
    LET cuts == {i \in 2..Len(s) : IsSpace(s[i]) /\ s[i - 1] \in {".", "!", "?"}}
    IN  IF cuts = {} THEN <<s>>
        ELSE LET p == CHOOSE i \in cuts : \A j \in cuts : i <= j
                 rest == {i \in p..Len(s) : ~IsSpace(s[i])}
                 q == IF rest = {} THEN Len(s) + 1
                      ELSE CHOOSE i \in rest : \A j \in rest : i <= j
             IN  <<SubSeq(s, 1, p - 1)>> \o RegexSplit(SubSeq(s, q, Len(s)))

\* ------------------------------------------------------------------------
\* difflib.SequenceMatcher(None, a, b).ratio()
\* ------------------------------------------------------------------------

\* Length of the common run of a from offset i and b from offset j, inside
\* a[..ahi) and b[..bhi).
RECURSIVE MatchLen(_, _, _, _, _, _)
MatchLen(a, b, i, j, ahi, bhi) ==
    IF i < ahi /\ j < bhi /\ a[i + 1] = b[j + 1]
    THEN 1 + MatchLen(a, b, i + 1, j + 1, ahi, bhi)
    ELSE 0

\* find_longest_match(alo, ahi, blo, bhi) without junk: the longest common
\* block, of those the one starting earliest in a, of those the one
\* starting earliest in b.
LongestMatch(a, b, alo, ahi, blo, bhi) ==
    LET cand == {<<i, j>> \in (alo..(ahi - 1)) \X (blo..(bhi - 1)) : TRUE}
        len(c) == MatchLen(a, b, c[1], c[2], ahi, bhi)
        better(c, d) == \/ len(c) > len(d)
                        \/ len(c) = len(d) /\ c[1] < d[1]
                        \/ len(c) = len(d) /\ c[1] = d[1] /\ c[2] <= d[2]
        best == CHOOSE c \in cand : \A d \in cand : better(c, d)
    IN  [i |-> best[1], j |-> best[2], k |-> len(best)]

\* Sum of the sizes of get_matching_blocks(): the longest block, then the
\* same to its left and to its right.
RECURSIVE MatchCount(_, _, _, _, _, _)
MatchCount(a, b, alo, ahi, blo, bhi) ==
    IF alo >= ahi \/ blo >= bhi THEN 0
    ELSE LET m == LongestMatch(a, b, alo, ahi, blo, bhi)
         IN  IF m.k = 0 THEN 0
             ELSE m.k + MatchCount(a, b, alo, m.i, blo, m.j)
                      + MatchCount(a, b, m.i + m.k, ahi, m.j + m.k, bhi)

\* The acceptance threshold of fuzzy_search, 0.9, as the fraction 9/10.
SimilarityNum == 9

SimilarityDen == 10

\* Extra characters of the fuzzy search window beyond the pattern length.
SearchSlack == 50

\* ratio() > 0.9, where ratio() is 2.0 * M / T and 1.0 for T = 0 (M the
\* matched characters, T the total length of both strings).
SimilarEnough(a, b) ==
    LET M == MatchCount(a, b, 0, Len(a), 0, Len(b))
        T == Len(a) + Len(b)
    IN  IF T = 0 THEN TRUE
        ELSE 2 * M * SimilarityDen > SimilarityNum * T

\* ------------------------------------------------------------------------
\* src/document_processor.py
\* ------------------------------------------------------------------------

\* fuzzy_search(text, pattern, start_pos): the first offset from start_pos
\* whose whitespace-normalized window is similar enough to the
\* whitespace-normalized pattern, or -1.
fuzzy_search(text, pattern, start_pos) ==
    LET pattern_normalized == NormalizeWS(pattern)
        pattern_len == Len(pattern)
        search_window == pattern_len + SearchSlack
        hits == {i \in start_pos..(Len(text) - pattern_len) :
                    SimilarEnough(pattern_normalized,
                                  NormalizeWS(Slice(text, i, i + search_window)))}
    IN  IF hits = {} THEN -1
        ELSE CHOOSE i \in hits : \A j \in hits : i <= j

\* Offset at which line n (1-based) starts: the running current_char_pos.
RECURSIVE LineStart(_, _)
LineStart(lines_text, n) ==
    IF n = 1 THEN 0
    ELSE LineStart(lines_text, n - 1) + Len(lines_text[n - 1]) + 1

\* Line records whose running offset does not count the newlines.
LineDataPacked(lines_text) ==
    [n \in 1..Len(lines_text) |->
        [line_num |-> n,
         text |-> lines_text[n],
         start |-> LineStart(lines_text, n) - (n - 1),
         end |-> LineStart(lines_text, n) - (n - 1) + Len(lines_text[n]),
         sentence_ids |-> <<>>]]

\* build_char_to_line_map(lines_text)[1]: the line records.
LineData(lines_text) ==
    [n \in 1..Len(lines_text) |->
        [line_num |-> n,
         text |-> lines_text[n],
         start |-> LineStart(lines_text, n),
         end |-> LineStart(lines_text, n) + Len(lines_text[n]),
         sentence_ids |-> <<>>]]

\* A map that also records the offset after each line's last character.
CharToLineMapInclusive(lines_text) ==
    [o \in 0..(LineStart(lines_text, Len(lines_text) + 1) - 1) |->
        CHOOSE n \in 1..Len(lines_text) :
            /\ LineStart(lines_text, n) <= o
            /\ o < LineStart(lines_text, n + 1)]

\* build_char_to_line_map(lines_text)[0]: offset -> line number, for the
\* offsets in range(line_start, line_end) of each line (a later line's
\* assignment overwrites an earlier one's).
CharToLineMap(lines_text) ==
    LET ld == LineData(lines_text)
        covers(n, o) == ld[n].start <= o /\ o < ld[n].end
        dom == {o \in 0..LineStart(lines_text, Len(lines_text) + 1) :
                    \E n \in 1..Len(ld) : covers(n, o)}
    IN  [o \in dom |->
            CHOOSE n \in 1..Len(ld) :
                covers(n, o) /\ \A m \in 1..Len(ld) : covers(m, o) => m <= n]

\* sorted(list(S)) for a set of integers.
RECURSIVE Sorted(_)
Sorted(S) ==
    IF S = {} THEN <<>>
    ELSE LET lo == CHOOSE x \in S : \A y \in S : x <= y
         IN  <<lo>> \o Sorted(S \ {lo})

\* {**a, **b}: the keys of both, b's value for a key of both.
DictMerge(a, b) ==
    [k \in DOMAIN a \cup DOMAIN b |-> IF k \in DOMAIN b THEN b[k] ELSE a[k]]

\* The line of the first offset of the sentence only.
CoveredLinesAtStart(char_to_line_map, text_len, sent_start, sent_end) ==
    {char_to_line_map[o] :
        o \in {p \in {sent_start} : p \in DOMAIN char_to_line_map}}

\* covered_lines of one sentence: the lines of the mapped offsets in
\* range(sent_start, min(sent_end, len(text))).
CoveredLines(char_to_line_map, text_len, sent_start, sent_end) ==
    {char_to_line_map[o] :
        o \in {p \in sent_start..(Min(sent_end, text_len) - 1) :
                  p \in DOMAIN char_to_line_map}}

\* f"{doc_id}_s{sent_idx + 1}", sent_idx being the position of the sentence
\* in the tokenizer's list (enumerate).
SentId(doc_id, sent_idx) == doc_id \o "_s" \o ToString(sent_idx + 1)

\* The result of the search given the results of its two steps.
LocateResult(exact, fuzzy) ==
    IF exact # -1 THEN [start |-> exact, how |-> "exact"]
    ELSE IF fuzzy # -1 THEN [start |-> fuzzy, how |-> "fuzzy"]
    ELSE [start |-> -1, how |-> "dropped"]

\* A search that tries fuzzy_search first and text.find only when it fails.
LocateFuzzyFirst(txt, sent_text, search_pos) ==
    IF fuzzy_search(txt, sent_text, search_pos) # -1
    THEN [start |-> fuzzy_search(txt, sent_text, search_pos), how |-> "fuzzy"]
    ELSE LocateResult(Find(txt, sent_text, search_pos), -1)

\* A search that starts at the beginning of the text, not at the cursor.
LocateFromStart(txt, sent_text, search_pos) ==
    LocateResult(Find(txt, sent_text, 0),
                 IF Find(txt, sent_text, 0) # -1 THEN -1
                 ELSE fuzzy_search(txt, sent_text, 0))

\* The located start of a trimmed sentence: text.find from the cursor and,
\* only when that fails, fuzzy_search from the cursor.
Locate(txt, sent_text, search_pos) ==
    LocateResult(Find(txt, sent_text, search_pos),
                 IF Find(txt, sent_text, search_pos) # -1 THEN -1
                 ELSE fuzzy_search(txt, sent_text, search_pos))

\* A step 5 that appends the id to the first covered line only.
StoreSentenceOnFirstLine(did, st, sent_idx, sent_text, loc, covered_lines_list) ==
    [search_pos |-> loc.start + Len(sent_text),
     line_data |->
        [n \in 1..Len(st.line_data) |->
            IF covered_lines_list # << >> /\ covered_lines_list[1] = n
            THEN [st.line_data[n] EXCEPT
                     !.sentence_ids = Append(@, SentId(did, sent_idx))]
            ELSE st.line_data[n]],
     sentence_data |->
        Append(st.sentence_data,
               [id |-> SentId(did, sent_idx), text |-> sent_text,
                lines |-> covered_lines_list, doc_id |-> did]),
     trace |-> Append(st.trace,
                      [idx |-> sent_idx, how |-> loc.how,
                       start |-> loc.start, end |-> loc.start + Len(sent_text)])]

\* Steps 4 and 5 and the end of the iteration for a sentence located at
\* loc: its record is appended, its id is appended to the sentence_ids of
\* the lines it covers, and the cursor moves to its end.
StoreSentence(did, st, sent_idx, sent_text, loc, covered_lines_list) ==
    [search_pos |-> loc.start + Len(sent_text),
     line_data |->
        [n \in 1..Len(st.line_data) |->
            IF \E i \in 1..Len(covered_lines_list) : covered_lines_list[i] = n
            THEN [st.line_data[n] EXCEPT
                     !.sentence_ids = Append(@, SentId(did, sent_idx))]
            ELSE st.line_data[n]],
     sentence_data |->
        Append(st.sentence_data,
               [id |-> SentId(did, sent_idx), text |-> sent_text,
                lines |-> covered_lines_list, doc_id |-> did]),
     trace |-> Append(st.trace,
                      [idx |-> sent_idx, how |-> loc.how,
                       start |-> loc.start, end |-> loc.start + Len(sent_text)])]

\* An iteration that ends in `continue`: nothing but the history changes.
SkipSentence(st, sent_idx, why) ==
    [st EXCEPT !.trace = Append(@, [idx |-> sent_idx, how |-> why,
                                    start |-> -1, end |-> -1])]

\* The iteration from the result loc of the search on.
PlaceSentence(txt, did, char_to_line_map, st, sent_idx, sent_text, loc) ==
    IF loc.start = -1
    THEN SkipSentence(st, sent_idx, "dropped")
    ELSE StoreSentence(did, st, sent_idx, sent_text, loc,
            Sorted(CoveredLines(char_to_line_map, Len(txt), loc.start,
                                loc.start + Len(sent_text))))

\* The iteration from the trimmed sentence on.
ProcessTrimmed(txt, did, char_to_line_map, st, sent_idx, sent_text) ==
    IF sent_text = << >>
    THEN SkipSentence(st, sent_idx, "empty")
    ELSE PlaceSentence(txt, did, char_to_line_map, st, sent_idx, sent_text,
                       Locate(txt, sent_text, st.search_pos))

\* One iteration of the loop of structure_document over sentences_texts,
\* on the loop state st = [search_pos, line_data, sentence_data, trace].
\* trace is a history of the iterations (what happened to each sentence
\* and where it was located); the code keeps no such list.
LoopBody(txt, did, char_to_line_map, st, sent_idx, raw_sent) ==
    ProcessTrimmed(txt, did, char_to_line_map, st, sent_idx, Strip(raw_sent))

\* The result dictionary of structure_document: the engine's four metadata
\* keys first, then the caller's metadata unpacked over them.
BuildResult(did, ttl, caller_metadata, st) ==
    [doc_id |-> did,
     metadata |->
        DictMerge([title |-> ttl,
                   total_lines |-> Len(st.line_data),
                   total_sentences |-> Len(st.sentence_data),
                   algorithm_version |-> "v2"],
                  caller_metadata),
     content |-> [lines |-> st.line_data, sentences |-> st.sentence_data]]

\* A segmentation that also takes the regex split when the tokenizer
\* returned an empty list.
SentencesTextsDefaulting(raised, tokenizer_result, txt) ==
    IF raised \/ tokenizer_result = << >> THEN RegexSplit(txt)
    ELSE tokenizer_result

\* Step 2: sentences_texts is what sent_tokenize returned, and the regex
\* split of the text when it raised.
SentencesTexts(raised, tokenizer_result, txt) ==
    IF raised THEN RegexSplit(txt) ELSE tokenizer_result

\* The loop state before the first sentence.
LoopInit(txt) ==
    [search_pos |-> 0,
     line_data |-> LineData(SplitLines(txt)),
     sentence_data |-> <<>>,
     trace |-> <<>>]

\* The whole loop over sentences_texts from position sent_idx on.
RECURSIVE LoopFrom(_, _, _, _, _)
LoopFrom(txt, did, st, sents, sent_idx) ==
    IF sent_idx >= Len(sents) THEN st
    ELSE LoopFrom(txt, did,
                  LoopBody(txt, did, CharToLineMap(SplitLines(txt)), st,
                           sent_idx, sents[sent_idx + 1]),
                  sents, sent_idx + 1)

\* structure_document(text, doc_id, title, metadata=caller_metadata) for a
\* given segmentation sents of the text.
structure_document(txt, did, ttl, caller_metadata, sents) ==
    BuildResult(did, ttl, caller_metadata,
                LoopFrom(txt, did, LoopInit(txt), sents, 0))

\* ------------------------------------------------------------------------
\* State
\* ------------------------------------------------------------------------

VARIABLES
    args,             \* the arguments of the structure_document call
    sentences_texts,  \* the segmentation of args.text
    nltk_failed,      \* whether sent_tokenize raised
    tokenized,        \* what sent_tokenize returned (empty when it raised)
    sent_idx,         \* position of the loop in sentences_texts (0-based)
    st,               \* search_pos, line_data, sentence_data (and trace)
    result,           \* the dictionary structure_document returns
    pc,               \* "start", "loop" or "done"
    heap,             \* the document dictionaries, by reference (1, 2, ...)
    ed,               \* self.doc of the StructuredDocumentEditor (a reference)
    calls,            \* history of the calls made on the editor
    hcall,            \* per caller: the helper function call in progress
    hlog,             \* per caller: history of its finished helper calls
    parsed,           \* the JSON object the LLM response parses to
    llm_provider,     \* update_mapping_single: the provider argument
    mappings,         \* update_mapping_single: what the generation returned
    errors,           \* validate_mappings: errors
    warnings,         \* validate_mappings: warnings
    upc,              \* position in update_mapping_single
    returned,         \* what update_mapping_single returned
    output_file,      \* the content of the output file
    fcall,            \* fuzzy_search: the arguments text, pattern, start_pos
    fi,               \* fuzzy_search: the loop variable i
    fret,             \* fuzzy_search: whether it returned, and what
    data_files,       \* update_mappings_batch: the input files
    continue_on_error,\* update_mappings_batch: the flag
    bidx,             \* update_mappings_batch: files taken by the loop so far
    results,          \* update_mappings_batch: the statistics
    bpc,              \* position in update_mappings_batch
    disk,             \* the YAML files of templates_dir
    cache,            \* PromptManager: self._templates_cache
    plog              \* history of the PromptManager calls

svars == <<args, sentences_texts, nltk_failed, tokenized, sent_idx, st, result, pc>>

evars == <<ed, calls>>

hvars == <<hcall, hlog>>

mvars == <<parsed, llm_provider, mappings, errors, warnings, upc, returned,
           output_file>>

fvars == <<fcall, fi, fret>>

bvars == <<data_files, continue_on_error, bidx, results, bpc>>

pvars == <<disk, cache, plog>>

vars == <<svars, heap, evars, hvars, mvars, fvars, bvars, pvars>>

\* The callers of the helper functions.
Callers == {1, 2}

\* No structure_document call, no editor object, no helper call.
NoStructuring ==
    /\ args = [text |-> << >>, doc_id |-> "", title |-> "", metadata |-> << >>]
    /\ sentences_texts = << >>
    /\ nltk_failed = FALSE
    /\ tokenized = << >>
    /\ sent_idx = 0
    /\ st = [search_pos |-> 0, line_data |-> << >>, sentence_data |-> << >>,
             trace |-> << >>]
    /\ result = [doc_id |-> "", metadata |-> << >>,
                 content |-> [lines |-> << >>, sentences |-> << >>]]
    /\ pc = "none"

NoEditor == ed = 0 /\ calls = << >>

NoCall == [stage |-> "idle", call |-> [op |-> "none"], src |-> 0, editor |-> 0]

NoHelpers ==
    /\ hcall = [c \in Callers |-> NoCall]
    /\ hlog = [c \in Callers |-> << >>]

\* No update_mapping_single call.
NoBatch ==
    /\ data_files = << >>
    /\ continue_on_error = TRUE
    /\ bidx = 0
    /\ results = [total |-> 0, success |-> 0, failed |-> 0, skipped |-> 0,
                  details |-> << >>]
    /\ bpc = "none"

NoPrompts ==
    /\ disk = << >>
    /\ cache = << >>
    /\ plog = << >>

NoSearch ==
    /\ fcall = [text |-> << >>, pattern |-> << >>, start_pos |-> 0]
    /\ fi = 0
    /\ fret = [returned |-> FALSE, value |-> -1]

NoMapping ==
    /\ parsed = << >>
    /\ llm_provider = ""
    /\ mappings = << >>
    /\ errors = << >>
    /\ warnings = << >>
    /\ upc = "none"
    /\ returned = "none"
    /\ output_file = [exists |-> FALSE]

\* ------------------------------------------------------------------------
\* Inputs
\* ------------------------------------------------------------------------

Texts == SeqsUpTo(Chars, MaxTextLen)

DocIds == {"d1"}

Titles == {"T"}

\* No metadata (None), metadata with keys of its own, and metadata that
\* uses the names of the engine's keys.
CallerMetadatas ==
    {<< >>,
     [author |-> "x"],
     [title |-> "caller", total_lines |-> 99, author |-> "x"],
     [total_sentences |-> 99, algorithm_version |-> "v9"]}

\* What sent_tokenize (NLTK, not part of the repository) may return when it
\* does not raise: the code accepts any list of strings.
TokenizerOutputs == SeqsUpTo(SeqsUpTo(Chars, MaxSentLen), MaxSents)

NoResult ==
    [doc_id |-> "", metadata |-> << >>,
     content |-> [lines |-> << >>, sentences |-> << >>]]

\* ------------------------------------------------------------------------
\* structure_document, step by step
\* ------------------------------------------------------------------------

InitStructure ==
    /\ args \in [text : Texts, doc_id : DocIds, title : Titles,
                 metadata : CallerMetadatas]
    /\ sentences_texts = << >>
    /\ nltk_failed = FALSE
    /\ tokenized = << >>
    /\ sent_idx = 0
    /\ st = LoopInit(args.text)
    /\ result = NoResult
    /\ pc = "start"
    /\ heap = << >>
    /\ NoEditor
    /\ NoHelpers
    /\ NoMapping
    /\ NoSearch
    /\ NoBatch
    /\ NoPrompts

\* Steps 1 and 2 when sent_tokenize returns.
TokenizeNltk ==
    /\ pc = "start"
    /\ \E sents \in TokenizerOutputs :
          /\ tokenized' = sents
          /\ sentences_texts' = SentencesTexts(FALSE, sents, args.text)
    /\ nltk_failed' = FALSE
    /\ st' = LoopInit(args.text)
    /\ pc' = "loop"
    /\ UNCHANGED <<fvars, bvars, pvars, args, sent_idx, result, heap, evars, hvars, mvars>>

\* Steps 1 and 2 when sent_tokenize raises: the regex split.
TokenizeFallback ==
    /\ pc = "start"
    /\ tokenized' = << >>
    /\ sentences_texts' = SentencesTexts(TRUE, << >>, args.text)
    /\ nltk_failed' = TRUE
    /\ st' = LoopInit(args.text)
    /\ pc' = "loop"
    /\ UNCHANGED <<fvars, bvars, pvars, args, sent_idx, result, heap, evars, hvars, mvars>>

\* Steps 3 to 5 for the next sentence of sentences_texts.
ProcessSentence ==
    /\ pc = "loop"
    /\ sent_idx < Len(sentences_texts)
    /\ st' = LoopBody(args.text, args.doc_id,
                      CharToLineMap(SplitLines(args.text)), st,
                      sent_idx, sentences_texts[sent_idx + 1])
    /\ sent_idx' = sent_idx + 1
    /\ UNCHANGED <<fvars, bvars, pvars, args, sentences_texts, nltk_failed, tokenized, result, pc, heap, evars, hvars, mvars>>

\* The loop is over: build and return the result.
Finish ==
    /\ pc = "loop"
    /\ sent_idx = Len(sentences_texts)
    /\ result' = BuildResult(args.doc_id, args.title, args.metadata, st)
    /\ pc' = "done"
    /\ UNCHANGED <<fvars, bvars, pvars, args, sentences_texts, nltk_failed, tokenized, sent_idx, st, heap, evars, hvars, mvars>>

NextStructure ==
    \/ TokenizeNltk
    \/ TokenizeFallback
    \/ ProcessSentence
    \/ Finish

SpecStructure == InitStructure /\ [][NextStructure]_vars

\* ------------------------------------------------------------------------
\* structure_document on texts of words and whitespace, with sentences long
\* enough to hold whitespace inside: the inputs on which text.find fails
\* and fuzzy_search locates the sentence, and on which a sentence covers
\* more than one line.
\* ------------------------------------------------------------------------

MaxWordTextLen == 4

MaxWordSentLen == 3

\* Longest text of words and newlines only (blank lines before a sentence).
MaxLineTextLen == 6

WordChars == {"a", " ", "\n"}

LineChars == {"a", "\n"}

WordTexts ==
    SeqsUpTo(WordChars, MaxWordTextLen) \cup SeqsUpTo(LineChars, MaxLineTextLen)

WordTokenizerOutputs == SeqsUpTo(SeqsUpTo(WordChars, MaxWordSentLen), MaxSents)

InitPlacement ==
    /\ args \in [text : WordTexts, doc_id : DocIds, title : Titles,
                 metadata : {<< >>}]
    /\ sentences_texts = << >>
    /\ nltk_failed = FALSE
    /\ tokenized = << >>
    /\ sent_idx = 0
    /\ st = LoopInit(args.text)
    /\ result = NoResult
    /\ pc = "start"
    /\ heap = << >>
    /\ NoEditor
    /\ NoHelpers
    /\ NoMapping
    /\ NoSearch
    /\ NoBatch
    /\ NoPrompts

\* Steps 1 and 2 when sent_tokenize returns a list of such sentences.
TokenizeWords ==
    /\ pc = "start"
    /\ \E sents \in WordTokenizerOutputs :
          /\ tokenized' = sents
          /\ sentences_texts' = SentencesTexts(FALSE, sents, args.text)
    /\ nltk_failed' = FALSE
    /\ st' = LoopInit(args.text)
    /\ pc' = "loop"
    /\ UNCHANGED <<fvars, bvars, pvars, args, sent_idx, result, heap, evars, hvars, mvars>>

NextPlacement ==
    \/ TokenizeWords
    \/ TokenizeFallback
    \/ ProcessSentence
    \/ Finish

SpecPlacement == InitPlacement /\ [][NextPlacement]_vars

\* ------------------------------------------------------------------------
\* fuzzy_search, step by step
\* ------------------------------------------------------------------------

MaxHaystackLen == 3

MaxPatternLen == 4

Haystacks == SeqsUpTo(WordChars, MaxHaystackLen)

Patterns == SeqsUpTo(WordChars, MaxPatternLen)

\* similarity > 0.9 for the window at offset i.
WindowMatches(text, pattern, i) ==
    SimilarEnough(NormalizeWS(pattern),
                  NormalizeWS(Slice(text, i, i + Len(pattern) + SearchSlack)))

\* i is in range(start_pos, len(text) - pattern_len + 1).
InSearchRange(text, pattern, i) == i < Len(text) - Len(pattern) + 1

InitSearch ==
    /\ fcall \in [text : Haystacks, pattern : Patterns,
                  start_pos : 0..MaxHaystackLen]
    /\ fi = fcall.start_pos
    /\ fret = [returned |-> FALSE, value |-> -1]
    /\ NoStructuring
    /\ heap = << >>
    /\ NoEditor
    /\ NoHelpers
    /\ NoMapping
    /\ NoBatch
    /\ NoPrompts

\* An iteration whose window is not similar enough: on to the next offset.
SearchStep ==
    /\ ~fret.returned
    /\ InSearchRange(fcall.text, fcall.pattern, fi)
    /\ ~WindowMatches(fcall.text, fcall.pattern, fi)
    /\ fi' = fi + 1
    /\ UNCHANGED <<svars, heap, evars, hvars, mvars, bvars, pvars, fcall, fret>>

\* An iteration whose window is similar enough: return i.
SearchHit ==
    /\ ~fret.returned
    /\ InSearchRange(fcall.text, fcall.pattern, fi)
    /\ WindowMatches(fcall.text, fcall.pattern, fi)
    /\ fret' = [returned |-> TRUE, value |-> fi]
    /\ UNCHANGED <<svars, heap, evars, hvars, mvars, bvars, pvars, fcall, fi>>

\* The range is exhausted: return -1.
SearchMiss ==
    /\ ~fret.returned
    /\ ~InSearchRange(fcall.text, fcall.pattern, fi)
    /\ fret' = [returned |-> TRUE, value |-> -1]
    /\ UNCHANGED <<svars, heap, evars, hvars, mvars, bvars, pvars, fcall, fi>>

NextSearch ==
    \/ SearchStep
    \/ SearchHit
    \/ SearchMiss

SpecSearch == InitSearch /\ [][NextSearch]_vars

\* ------------------------------------------------------------------------
\* Properties of structure_document
\* ------------------------------------------------------------------------

\* The four metadata keys the engine computes.
EngineKeys == {"title", "total_lines", "total_sentences", "algorithm_version"}

\* C1: the metadata of the returned document carries the engine-computed
\* title, total_lines, total_sentences and algorithm_version whatever keys
\* the caller metadata has, and every other caller key is carried over
\* unchanged.
C1_EngineKeysTakePrecedence ==
    pc = "done" =>
        /\ result.metadata["title"] = args.title
        /\ result.metadata["total_lines"] = Len(st.line_data)
        /\ result.metadata["total_sentences"] = Len(st.sentence_data)
        /\ result.metadata["algorithm_version"] = "v2"
        /\ \A k \in DOMAIN args.metadata \ EngineKeys :
              k \in DOMAIN result.metadata /\ result.metadata[k] = args.metadata[k]

\* C2: right after structure_document returns, metadata.total_lines is the
\* number of line records and metadata.total_sentences the number of
\* sentence records of the returned document, for every caller metadata.
C2_TotalsMatchRecords ==
    pc = "done" =>
        /\ result.metadata["total_lines"] = Len(result.content.lines)
        /\ result.metadata["total_sentences"] = Len(result.content.sentences)

\* C3: a returned document with K stored sentences has the ids
\* {doc_id}_s1 .. {doc_id}_sK in sentence order: the counter starts at 1 and
\* a sentence that was empty after trimming or could not be located leaves
\* no gap.
C3_IdsAreDense ==
    pc = "done" =>
        \A k \in 1..Len(result.content.sentences) :
            result.content.sentences[k].id = args.doc_id \o "_s" \o ToString(k)

\* ------------------------------------------------------------------------
\* src/document_editor.py: the operations of StructuredDocumentEditor on the
\* value of self.doc.  Each yields [ok, err, doc]: whether the call
\* returned, the exception it raised otherwise, and the value of self.doc
\* after the call.
\* ------------------------------------------------------------------------

Returned(doc) == [ok |-> TRUE, err |-> "", doc |-> doc]

Raised(err, doc) == [ok |-> FALSE, err |-> err, doc |-> doc]

\* Whether sent['sentence_id'] can be read.
HasSentenceId(sent) == "sentence_id" \in DOMAIN sent

\* `x in sentence_ids` for a list.
InList(x, list) == \E i \in 1..Len(list) : list[i] = x

\* The list comprehension of delete_sentences over sentences that all have
\* the key.
RECURSIVE Remaining(_, _)
Remaining(sentences, sentence_ids) ==
    IF sentences = << >> THEN << >>
    ELSE IF ~InList(Head(sentences)["sentence_id"], sentence_ids)
         THEN <<Head(sentences)>> \o Remaining(Tail(sentences), sentence_ids)
         ELSE Remaining(Tail(sentences), sentence_ids)

\* A delete_sentences that also brings metadata.total_sentences up to date.
delete_sentences_recounting(doc, sentence_ids) ==
    IF \E i \in 1..Len(doc.content.sentences) :
           ~HasSentenceId(doc.content.sentences[i])
    THEN Raised("KeyError", doc)
    ELSE Returned([doc EXCEPT
                      !.content.sentences = Remaining(@, sentence_ids),
                      !.metadata = DictMerge(@,
                          [total_sentences |->
                              Len(Remaining(doc.content.sentences, sentence_ids))])])

\* A delete_sentences that rejects an identifier no sentence has.
delete_sentences_strict(doc, sentence_ids) ==
    IF \E i \in 1..Len(doc.content.sentences) :
           ~HasSentenceId(doc.content.sentences[i])
    THEN Raised("KeyError", doc)
    ELSE IF \E j \in 1..Len(sentence_ids) :
                \A i \in 1..Len(doc.content.sentences) :
                    doc.content.sentences[i]["sentence_id"] # sentence_ids[j]
         THEN Raised("ValueError", doc)
         ELSE Returned([doc EXCEPT !.content.sentences = Remaining(@, sentence_ids)])

\* delete_sentences(sentence_ids): reading sent['sentence_id'] of a record
\* without that key raises KeyError before self.doc is assigned.
delete_sentences(doc, sentence_ids) ==
    IF \E i \in 1..Len(doc.content.sentences) :
           ~HasSentenceId(doc.content.sentences[i])
    THEN Raised("KeyError", doc)
    ELSE Returned([doc EXCEPT !.content.sentences = Remaining(@, sentence_ids)])

\* The first position (1-based) at which the loop `for sent in sentences:
\* if sent['sentence_id'] == sentence_id` stops: a record without the key
\* (KeyError) or a record with that id; 0 when the loop runs to its end.
FirstStop(sentences, sentence_id) ==
    LET stops == {i \in 1..Len(sentences) :
                     \/ ~HasSentenceId(sentences[i])
                     \/ sentences[i]["sentence_id"] = sentence_id}
    IN  IF stops = {} THEN 0
        ELSE CHOOSE i \in stops : \A j \in stops : i <= j

\* list.insert(i, x): a negative i counts from the end, and i is clamped to
\* 0 .. len(list).
ListInsert(list, i, x) ==
    LET n == Len(list)
        k == IF i < 0 THEN (IF i + n < 0 THEN 0 ELSE i + n) ELSE Min(i, n)
    IN  SubSeq(list, 1, k) \o <<x>> \o SubSeq(list, k + 1, n)

\* new_sent_obj of insert_sentence.
NewSentObj(sentences, new_sentence) ==
    [sentence_id |-> "inserted_" \o ToString(Len(sentences)),
     text |-> new_sentence,
     start_char |-> 0,
     end_char |-> Len(new_sentence)]

\* A placement that takes every unknown placement for "after".
PlaceDefaultingToAfter(doc, new_sentence, insert_idx, placement) ==
    LET sentences == doc.content.sentences
        n == Len(sentences)
        obj == NewSentObj(sentences, new_sentence)
        k == IF insert_idx < 0 THEN insert_idx + n ELSE insert_idx
    IN  CASE placement = "before" ->
               Returned([doc EXCEPT !.content.sentences =
                                        ListInsert(@, insert_idx, obj)])
          [] placement = "replace" ->
               IF 0 <= k /\ k < n
               THEN Returned([doc EXCEPT !.content.sentences[k + 1] = obj])
               ELSE Raised("IndexError", doc)
          [] OTHER ->
               Returned([doc EXCEPT !.content.sentences =
                                        ListInsert(@, insert_idx + 1, obj)])

\* A placement whose "after" inserts at insert_idx itself.
PlaceAtIndex(doc, new_sentence, insert_idx, placement) ==
    LET sentences == doc.content.sentences
        n == Len(sentences)
        obj == NewSentObj(sentences, new_sentence)
        k == IF insert_idx < 0 THEN insert_idx + n ELSE insert_idx
    IN  CASE placement = "before" ->
               Returned([doc EXCEPT !.content.sentences =
                                        ListInsert(@, insert_idx, obj)])
          [] placement = "after" ->
               Returned([doc EXCEPT !.content.sentences =
                                        ListInsert(@, insert_idx, obj)])
          [] placement = "replace" ->
               IF 0 <= k /\ k < n
               THEN Returned([doc EXCEPT !.content.sentences[k + 1] = obj])
               ELSE Raised("IndexError", doc)
          [] OTHER -> Raised("ValueError", doc)

\* The `# 삽입` part of insert_sentence for a resolved insert_idx (0-based):
\* list.insert for before and after, item assignment for replace (a
\* negative index counts from the end, an index out of range raises
\* IndexError), ValueError for any other placement.
Place(doc, new_sentence, insert_idx, placement) ==
    LET sentences == doc.content.sentences
        n == Len(sentences)
        obj == NewSentObj(sentences, new_sentence)
        k == IF insert_idx < 0 THEN insert_idx + n ELSE insert_idx
    IN  CASE placement = "before" ->
               Returned([doc EXCEPT !.content.sentences =
                                        ListInsert(@, insert_idx, obj)])
          [] placement = "after" ->
               Returned([doc EXCEPT !.content.sentences =
                                        ListInsert(@, insert_idx + 1, obj)])
          [] placement = "replace" ->
               IF 0 <= k /\ k < n
               THEN Returned([doc EXCEPT !.content.sentences[k + 1] = obj])
               ELSE Raised("IndexError", doc)
          [] OTHER -> Raised("ValueError", doc)

\* insert_sentence(new_sentence, position, placement).  position is
\* [str |-> id] for a string and [int |-> i] for an integer.
insert_sentence(doc, new_sentence, position, placement) ==
    IF "str" \in DOMAIN position
    THEN LET j == FirstStop(doc.content.sentences, position.str)
         IN  IF j = 0 THEN Raised("ValueError", doc)
             ELSE IF ~HasSentenceId(doc.content.sentences[j])
                  THEN Raised("KeyError", doc)
                  ELSE Place(doc, new_sentence, j - 1, placement)
    ELSE Place(doc, new_sentence, position.int, placement)

\* The record update of update_sentence: sent['text'] = new_text, then
\* sent['end_char'] = sent['start_char'] + len(new_text).
UpdatedSent(sent, new_text) ==
    [k \in DOMAIN sent \cup {"end_char"} |->
        IF k = "text" THEN new_text
        ELSE IF k = "end_char" THEN sent["start_char"] + Len(new_text)
        ELSE sent[k]]

\* update_sentence(sentence_id, new_text).
update_sentence(doc, sentence_id, new_text) ==
    LET j == FirstStop(doc.content.sentences, sentence_id)
    IN  IF j = 0 THEN Returned(doc)
        ELSE IF ~HasSentenceId(doc.content.sentences[j])
             THEN Raised("KeyError", doc)
             ELSE IF "start_char" \notin DOMAIN doc.content.sentences[j]
                  THEN Raised("KeyError",
                              [doc EXCEPT !.content.sentences[j] =
                                   [@ EXCEPT !["text"] = new_text]])
                  ELSE Returned([doc EXCEPT !.content.sentences[j] =
                                     UpdatedSent(@, new_text)])

\* get_document().
get_document(doc) == Returned(doc)

\* ------------------------------------------------------------------------
\* Documents on the heap.  A document is a mutable dictionary: heap[r] is
\* the current value of the dictionary with reference r.  Everything below
\* a document (its content, its lists, its records) is reachable from that
\* document alone, because the only copies made are deep copies.
\* ------------------------------------------------------------------------

\* Most calls made in one run of the editor and of the helper functions.
MaxOps == 2

\* An editor that keeps the caller's dictionary instead of a copy of it.
EditorInitAliased(h, structured_doc) == [heap |-> h, doc |-> structured_doc]

\* StructuredDocumentEditor.__init__: self.doc = copy.deepcopy(structured_doc).
\* Yields the heap with the new dictionary and the reference kept in self.doc.
EditorInit(h, structured_doc) ==
    [heap |-> Append(h, h[structured_doc]), doc |-> Len(h) + 1]

\* ------------------------------------------------------------------------
\* Inputs of the editor
\* ------------------------------------------------------------------------

\* Texts whose structured documents have zero, one and two sentences.
EditTexts ==
    {<< >>,
     <<"a">>,
     <<".", "\n", "a">>}

\* Documents as structure_document returns them (sentence records with the
\* keys id, text, lines, doc_id).
StructuredDocs ==
    {structure_document(t, "d1", "T", << >>, RegexSplit(t)) : t \in EditTexts}

\* Offset of sentence n in the sentence texts joined by single blanks.
RECURSIVE JoinedStart(_, _)
JoinedStart(sentences, n) ==
    IF n = 1 THEN 0
    ELSE JoinedStart(sentences, n - 1) + Len(sentences[n - 1].text) + 1

\* The same documents with sentence records in the shape the editor reads
\* and writes (keys sentence_id, text, start_char, end_char).
EditorShaped(doc) ==
    [doc EXCEPT !.content.sentences =
        [n \in 1..Len(@) |->
            [sentence_id |-> @[n].id,
             text |-> @[n].text,
             start_char |-> JoinedStart(@, n),
             end_char |-> JoinedStart(@, n) + Len(@[n].text)]]]

EditorShapedDocs == {EditorShaped(d) : d \in StructuredDocs}

OriginalDocs == StructuredDocs \cup EditorShapedDocs

\* The identifier of a sentence record under either key.
IdOf(sent) == IF HasSentenceId(sent) THEN sent["sentence_id"] ELSE sent["id"]

IdsOf(doc) == {IdOf(doc.content.sentences[i]) : i \in 1..Len(doc.content.sentences)}

\* Identifiers a caller may pass: those of the document and an unknown one.
ArgIds(doc) == IdsOf(doc) \cup {"nope"}

\* Lists of zero, one or two of them.
ArgIdLists(doc) ==
    {<< >>} \cup {<<a>> : a \in ArgIds(doc)}
            \cup {<<a, b>> : a \in ArgIds(doc), b \in ArgIds(doc)}

\* Positions: a sentence id, or an integer from -1 to the list length.
ArgPositions(doc) ==
    {[str |-> a] : a \in ArgIds(doc)}
        \cup {[int |-> i] : i \in (-1)..Len(doc.content.sentences)}

Placements == {"before", "after", "replace", "sideways"}

NewTexts == {<<"b", "b">>}

\* A call of an editor operation with its arguments.
OpDelete(ids) ==
    [op |-> "delete", ids |-> ids, text |-> << >>, position |-> [int |-> 0],
     placement |-> "", sentence_id |-> ""]

OpInsert(new_sentence, position, placement) ==
    [op |-> "insert", ids |-> << >>, text |-> new_sentence, position |-> position,
     placement |-> placement, sentence_id |-> ""]

OpUpdate(sentence_id, new_text) ==
    [op |-> "update", ids |-> << >>, text |-> new_text, position |-> [int |-> 0],
     placement |-> "", sentence_id |-> sentence_id]

OpGet == [OpDelete(<< >>) EXCEPT !.op = "get"]

DeleteCalls(doc) == {OpDelete(ids) : ids \in ArgIdLists(doc)}

InsertCalls(doc) ==
    {OpInsert(t, p, pl) : t \in NewTexts, p \in ArgPositions(doc), pl \in Placements}

UpdateCalls(doc) == {OpUpdate(a, t) : a \in ArgIds(doc), t \in NewTexts}

\* The calls of the helper functions take their arguments from smaller sets:
\* lists of at most one id, a sentence id or index 0 as the position, and
\* the default placement or one the editor does not know.
HelperDeleteCalls(doc) ==
    {OpDelete(ids) : ids \in {<< >>} \cup {<<a>> : a \in ArgIds(doc)}}

HelperInsertCalls(doc) ==
    {OpInsert(t, p, pl) :
        t \in NewTexts,
        p \in {[str |-> a] : a \in ArgIds(doc)} \cup {[int |-> 0]},
        pl \in {"after", "sideways"}}

HelperUpdateCalls(doc) == UpdateCalls(doc)

\* The operation a call names, on the value of self.doc.
Apply(call, doc) ==
    CASE call.op = "delete" -> delete_sentences(doc, call.ids)
      [] call.op = "insert" ->
             insert_sentence(doc, call.text, call.position, call.placement)
      [] call.op = "update" -> update_sentence(doc, call.sentence_id, call.text)
      [] OTHER -> get_document(doc)

\* ------------------------------------------------------------------------
\* One StructuredDocumentEditor and the calls of its methods
\* ------------------------------------------------------------------------

\* The caller's document is heap[1]; the editor was constructed on it.
InitEditor ==
    /\ \E d \in OriginalDocs :
          /\ heap = EditorInit(<<d>>, 1).heap
          /\ ed = EditorInit(<<d>>, 1).doc
    /\ calls = << >>
    /\ NoStructuring
    /\ NoHelpers
    /\ NoMapping
    /\ NoSearch
    /\ NoBatch
    /\ NoPrompts

\* A method call on the editor: self.doc becomes what the operation leaves,
\* and the method returns self.doc itself (the reference ed) unless it
\* raised.  The history keeps the call, the value of self.doc before it,
\* the outcome, the reference returned and the value returned.
Method(call) ==
    /\ heap' = [heap EXCEPT ![ed] = Apply(call, heap[ed]).doc]
    /\ calls' = Append(calls,
                       [call |-> call,
                        before |-> heap[ed],
                        ok |-> Apply(call, heap[ed]).ok,
                        err |-> Apply(call, heap[ed]).err,
                        ref |-> IF Apply(call, heap[ed]).ok THEN ed ELSE 0,
                        value |-> Apply(call, heap[ed]).doc])
    /\ UNCHANGED <<svars, fvars, bvars, pvars, ed, hvars, mvars>>

\* The editor exists and the run has calls left.
CanCall == ed # 0 /\ Len(calls) < MaxOps

DeleteSentences == CanCall /\ \E call \in DeleteCalls(heap[ed]) : Method(call)

InsertSentence == CanCall /\ \E call \in InsertCalls(heap[ed]) : Method(call)

UpdateSentence == CanCall /\ \E call \in UpdateCalls(heap[ed]) : Method(call)

GetDocument == CanCall /\ Method(OpGet)

NextEditor ==
    \/ DeleteSentences
    \/ InsertSentence
    \/ UpdateSentence
    \/ GetDocument

SpecEditor == InitEditor /\ [][NextEditor]_vars

\* ------------------------------------------------------------------------
\* The helper functions delete_sentences_from_doc, insert_sentence_to_doc
\* and update_sentence_in_doc, called by several callers.  A helper call is
\* two steps: it constructs an editor on the document passed in, then calls
\* the method on it and returns what the method returns.
\* ------------------------------------------------------------------------

\* The caller's original document is heap[1].
InitHelpers ==
    /\ \E d \in OriginalDocs : heap = <<d>>
    /\ NoHelpers
    /\ NoStructuring
    /\ NoEditor
    /\ NoMapping
    /\ NoSearch
    /\ NoBatch
    /\ NoPrompts

\* Helper calls begun so far.
CallsBegun ==
    LET n(c) == Len(hlog[c]) + (IF hcall[c].stage = "idle" THEN 0 ELSE 1)
    IN  n(1) + n(2)

\* Caller c is not inside a helper call and the run has calls left.
CanEnter(c) == hcall[c].stage = "idle" /\ CallsBegun < MaxOps

\* Documents caller c can pass: the original and those returned to it.
DocsOf(c) == {1} \cup {hlog[c][i].ref : i \in {k \in 1..Len(hlog[c]) : hlog[c][k].ok}}

\* First line of a helper: editor = StructuredDocumentEditor(structured_doc).
HelperEnter(c, src, call) ==
    /\ heap' = EditorInit(heap, src).heap
    /\ hcall' = [hcall EXCEPT ![c] =
                    [stage |-> "constructed", call |-> call, src |-> src,
                     input |-> heap[src],
                     editor |-> EditorInit(heap, src).doc]]
    /\ UNCHANGED <<svars, fvars, bvars, pvars, evars, hlog, mvars>>

DeleteFromDocEnter ==
    \E c \in Callers :
        /\ CanEnter(c)
        /\ \E src \in DocsOf(c) :
              \E call \in HelperDeleteCalls(heap[src]) : HelperEnter(c, src, call)

InsertToDocEnter ==
    \E c \in Callers :
        /\ CanEnter(c)
        /\ \E src \in DocsOf(c) :
              \E call \in HelperInsertCalls(heap[src]) : HelperEnter(c, src, call)

UpdateInDocEnter ==
    \E c \in Callers :
        /\ CanEnter(c)
        /\ \E src \in DocsOf(c) :
              \E call \in HelperUpdateCalls(heap[src]) : HelperEnter(c, src, call)

\* Second line of a helper: return editor.<method>(...).  The history keeps
\* the call, the document passed in (its reference and the value it had
\* when the helper was called), the outcome, the reference and value
\* returned, and whether another caller's helper call was in progress.
HelperReturn(c) ==
    /\ hcall[c].stage = "constructed"
    /\ heap' = [heap EXCEPT ![hcall[c].editor] =
                   Apply(hcall[c].call, heap[hcall[c].editor]).doc]
    /\ hlog' = [hlog EXCEPT ![c] =
                   Append(@,
                      [call |-> hcall[c].call,
                       src |-> hcall[c].src,
                       input |-> hcall[c].input,
                       ok |-> Apply(hcall[c].call, heap[hcall[c].editor]).ok,
                       err |-> Apply(hcall[c].call, heap[hcall[c].editor]).err,
                       ref |-> IF Apply(hcall[c].call, heap[hcall[c].editor]).ok
                               THEN hcall[c].editor ELSE 0,
                       value |-> Apply(hcall[c].call, heap[hcall[c].editor]).doc,
                       overlapped |-> \E o \in Callers \ {c} :
                                         hcall[o].stage = "constructed"])]
    /\ hcall' = [hcall EXCEPT ![c] = NoCall]
    /\ UNCHANGED <<svars, fvars, bvars, pvars, evars, mvars>>

HelperFinish == \E c \in Callers : HelperReturn(c)

NextHelpers ==
    \/ DeleteFromDocEnter
    \/ InsertToDocEnter
    \/ UpdateInDocEnter
    \/ HelperFinish

SpecHelpers == InitHelpers /\ [][NextHelpers]_vars

\* ------------------------------------------------------------------------
\* Properties of the editor and of the helper functions
\* ------------------------------------------------------------------------

\* The identifiers of a sentence list are pairwise distinct.
DistinctIds(sentences) ==
    \A i, j \in 1..Len(sentences) :
        IdOf(sentences[i]) = IdOf(sentences[j]) => i = j

\* C4: the sentence ids of the editor's document are pairwise distinct
\* after every sequence of delete, insert and update operations on a
\* document returned by structure_document.
C4_IdsStayDistinct ==
    ed # 0 => DistinctIds(heap[ed].content.sentences)

\* The call names a sentence id stored in doc: a delete of a list holding
\* one, an insert at one with a placement the editor knows, an update of one.
NamesStoredId(call, doc) ==
    CASE call.op = "delete" ->
             \E i \in 1..Len(call.ids) : call.ids[i] \in IdsOf(doc)
      [] call.op = "insert" ->
             /\ "str" \in DOMAIN call.position
             /\ call.position.str \in IdsOf(doc)
             /\ call.placement \in {"before", "after", "replace"}
      [] call.op = "update" -> call.sentence_id \in IdsOf(doc)
      [] OTHER -> FALSE

\* C5: every helper call on a document returned by structure_document that
\* names a sentence id stored in it returns without an error, and the
\* document it returns has the edit (it differs from the one passed in).
C5_HelpersAcceptStructuredDocs ==
    \A c \in Callers : \A i \in 1..Len(hlog[c]) :
        (hlog[c][i].input \in StructuredDocs
            /\ NamesStoredId(hlog[c][i].call, hlog[c][i].input))
        => (hlog[c][i].ok /\ hlog[c][i].value # hlog[c][i].input)

\* C6: the document passed to a helper function keeps the value it had when
\* the helper was called, while the call is in progress and after it
\* returned or raised, and what each call returns or raises is the outcome
\* of its own operation on that value alone, whatever other callers did in
\* between.
C6_HelpersLeaveInputUnchanged ==
    \A c \in Callers :
        /\ hcall[c].stage = "constructed" => heap[hcall[c].src] = hcall[c].input
        /\ \A i \in 1..Len(hlog[c]) :
              /\ heap[hlog[c][i].src] = hlog[c][i].input
              /\ hlog[c][i].ok = Apply(hlog[c][i].call, hlog[c][i].input).ok
              /\ hlog[c][i].err = Apply(hlog[c][i].call, hlog[c][i].input).err
              /\ hlog[c][i].ok =>
                     /\ hlog[c][i].value = Apply(hlog[c][i].call, hlog[c][i].input).doc
                     /\ heap[hlog[c][i].ref] = hlog[c][i].value

\* Both callers edited the original document with overlapping helper calls,
\* each got a changed document, and the two results differ.
C6_TwoCallersEditedTheOriginal ==
    /\ \A c \in Callers :
          /\ Len(hlog[c]) = 1
          /\ hlog[c][1].src = 1
          /\ hlog[c][1].ok
          /\ hlog[c][1].value # hlog[c][1].input
    /\ \E c \in Callers : hlog[c][1].overlapped
    /\ hlog[1][1].value # hlog[2][1].value

\* C7: a document returned by an operation of the editor keeps the content
\* it was returned with during all later operations on that editor.
C7_ReturnedValuesAreIndependent ==
    \A i \in 1..Len(calls) :
        calls[i].ok => heap[calls[i].ref] = calls[i].value

\* Every sentence record of doc has the key the editor reads.
HasIdField(doc) ==
    \A i \in 1..Len(doc.content.sentences) :
        HasSentenceId(doc.content.sentences[i])

\* The sentences whose identifier is not in ids, in their order.
NotListed(sentences, ids) ==
    LET Keep(sent) == \A j \in 1..Len(ids) : sent["sentence_id"] # ids[j]
    IN  SelectSeq(sentences, Keep)

\* C8: on a document whose sentence records all have sentence_id,
\* delete_sentences returns without an error a document whose sentence list
\* is the sentences whose id is not in the list given, in their order; with
\* no id of the list in the document, the document is unchanged.
C8_DeleteKeepsTheOthers ==
    \A i \in 1..Len(calls) :
        (calls[i].call.op = "delete" /\ HasIdField(calls[i].before))
        => /\ calls[i].ok
           /\ calls[i].value.content.sentences =
                  NotListed(calls[i].before.content.sentences, calls[i].call.ids)
           /\ (\A j \in 1..Len(calls[i].call.ids) :
                   calls[i].call.ids[j] \notin IdsOf(calls[i].before))
              => calls[i].value = calls[i].before

\* A delete of the first of two sentences and of an unknown id returned the
\* second sentence alone.
C8_DeletedWithUnknownId ==
    \E i \in 1..Len(calls) :
        /\ calls[i].call.op = "delete"
        /\ HasIdField(calls[i].before)
        /\ Len(calls[i].before.content.sentences) = 2
        /\ calls[i].call.ids =
               <<calls[i].before.content.sentences[1]["sentence_id"], "nope">>
        /\ calls[i].value.content.sentences =
               <<calls[i].before.content.sentences[2]>>

\* C9: for every document and id list, delete_sentences_from_doc yields a
\* document, and delete_sentences_from_doc of that document with the same
\* list yields an equal document.
C9_DeleteIsIdempotent ==
    \A c \in Callers : \A i \in 1..Len(hlog[c]) :
        hlog[c][i].call.op = "delete"
        => /\ hlog[c][i].ok
           /\ \A j \in 1..Len(hlog[c]) :
                  (hlog[c][j].call = hlog[c][i].call
                      /\ hlog[c][j].src = hlog[c][i].ref)
                  => (hlog[c][j].ok /\ hlog[c][j].value = hlog[c][i].value)

\* The index (0-based) a position resolves to in a sentence list: an integer
\* that is an index of the list, or the index of the first record with the
\* given sentence_id when the lookup gets to it; -1 when there is none.
ResolvedIndex(sentences, position) ==
    IF "int" \in DOMAIN position
    THEN IF 0 <= position.int /\ position.int < Len(sentences)
         THEN position.int ELSE -1
    ELSE IF \E i \in 1..Len(sentences) :
                \A j \in 1..i :
                    /\ HasSentenceId(sentences[j])
                    /\ (sentences[j]["sentence_id"] = position.str) <=> (j = i)
         THEN (CHOOSE i \in 1..Len(sentences) :
                   \A j \in 1..i :
                       /\ HasSentenceId(sentences[j])
                       /\ (sentences[j]["sentence_id"] = position.str) <=> (j = i))
              - 1
         ELSE -1

\* The sentence list the insert is to leave: obj at index k for before, at
\* index k + 1 for after, in place of the record at index k for replace.
Placed(sentences, obj, k, placement) ==
    CASE placement = "before" ->
             SubSeq(sentences, 1, k) \o <<obj>>
                 \o SubSeq(sentences, k + 1, Len(sentences))
      [] placement = "after" ->
             SubSeq(sentences, 1, k + 1) \o <<obj>>
                 \o SubSeq(sentences, k + 2, Len(sentences))
      [] placement = "replace" ->
             [n \in 1..Len(sentences) |-> IF n = k + 1 THEN obj ELSE sentences[n]]

\* C10: an insert whose position resolves to index k of a list of n
\* sentences, with placement before, after or replace, returns without an
\* error, and the sentence list is the old one with the record (inserted_n,
\* the text, 0, len(text)) at index k, at index k + 1, or in place of the
\* record at index k.
C10_InsertPlacesAtResolvedIndex ==
    \A i \in 1..Len(calls) :
        (calls[i].call.op = "insert"
            /\ calls[i].call.placement \in {"before", "after", "replace"}
            /\ ResolvedIndex(calls[i].before.content.sentences,
                             calls[i].call.position) >= 0)
        => /\ calls[i].ok
           /\ calls[i].value.content.sentences =
                  Placed(calls[i].before.content.sentences,
                         [sentence_id |-> "inserted_" \o
                              ToString(Len(calls[i].before.content.sentences)),
                          text |-> calls[i].call.text,
                          start_char |-> 0,
                          end_char |-> Len(calls[i].call.text)],
                         ResolvedIndex(calls[i].before.content.sentences,
                                       calls[i].call.position),
                         calls[i].call.placement)

\* An insert after the first of two sentences, named by its id, returned
\* three sentences, and an insert in place of the last of them followed.
C10_InsertedAtResolvedIndex ==
    /\ Len(calls) = 2
    /\ calls[1].call.op = "insert"
    /\ calls[1].call.placement = "after"
    /\ "str" \in DOMAIN calls[1].call.position
    /\ Len(calls[1].before.content.sentences) = 2
    /\ ResolvedIndex(calls[1].before.content.sentences, calls[1].call.position) = 0
    /\ Len(calls[1].value.content.sentences) = 3
    /\ calls[2].call.op = "insert"
    /\ calls[2].call.placement = "replace"
    /\ calls[2].call.position = [int |-> 2]
    /\ calls[2].ok
    /\ Len(calls[2].value.content.sentences) = 3

\* C11: an insert with a string position that is the id of no sentence, or
\* with a placement other than before, after and replace (string or integer
\* position), raises an error and leaves the editor's document as it was
\* before the call.
C11_InsertRejectsBadArguments ==
    \A i \in 1..Len(calls) :
        (calls[i].call.op = "insert"
            /\ \/ calls[i].call.placement \notin {"before", "after", "replace"}
               \/ /\ "str" \in DOMAIN calls[i].call.position
                  /\ calls[i].call.position.str \notin IdsOf(calls[i].before))
        => /\ ~calls[i].ok
           /\ calls[i].err # ""
           /\ calls[i].value = calls[i].before

\* An insert at an unknown id failed, then an insert at index 0 of a
\* document with sentences failed for its placement, and the editor's
\* document is still the one it was constructed with.
C11_BothRejectionsHappened ==
    /\ Len(calls) = 2
    /\ calls[1].call.op = "insert"
    /\ calls[1].call.position = [str |-> "nope"]
    /\ calls[1].call.placement = "after"
    /\ calls[1].err = "ValueError"
    /\ calls[2].call.op = "insert"
    /\ calls[2].call.position = [int |-> 0]
    /\ calls[2].call.placement = "sideways"
    /\ calls[2].err = "ValueError"
    /\ Len(heap[ed].content.sentences) = 2
    /\ heap[ed] = heap[1]

\* C12: an insert with an integer position that is no index of the
\* sentence list (negative, or at least the number of sentences) raises an
\* error, for every placement.
C12_InsertRejectsBadIndex ==
    \A i \in 1..Len(calls) :
        (calls[i].call.op = "insert"
            /\ "int" \in DOMAIN calls[i].call.position
            /\ ~(0 <= calls[i].call.position.int
                   /\ calls[i].call.position.int
                          < Len(calls[i].before.content.sentences)))
        => (~calls[i].ok /\ calls[i].value = calls[i].before)

\* The first index (1-based) of a record with the identifier, 0 without one.
FirstWithId(sentences, id) ==
    IF \E i \in 1..Len(sentences) : IdOf(sentences[i]) = id
    THEN CHOOSE i \in 1..Len(sentences) :
             /\ IdOf(sentences[i]) = id
             /\ \A j \in 1..(i - 1) : IdOf(sentences[j]) # id
    ELSE 0

\* The update left exactly this: record m has the new text and end_char =
\* start_char + len(new_text), everything else is as before.
UpdatedAt(before, after, m, new_text) ==
    /\ Len(after.content.sentences) = Len(before.content.sentences)
    /\ \A n \in 1..Len(before.content.sentences) :
          n # m => after.content.sentences[n] = before.content.sentences[n]
    /\ DOMAIN after.content.sentences[m] =
           DOMAIN before.content.sentences[m] \cup {"end_char"}
    /\ \A k \in DOMAIN after.content.sentences[m] \ {"text", "end_char"} :
          after.content.sentences[m][k] = before.content.sentences[m][k]
    /\ after.content.sentences[m]["text"] = new_text
    /\ "start_char" \in DOMAIN before.content.sentences[m]
    /\ after.content.sentences[m]["end_char"] =
           before.content.sentences[m]["start_char"] + Len(new_text)

\* C13: update_sentence returns without an error; it changes the first
\* sentence with the identifier only (text, and end_char = start_char +
\* len(text)), and with no such sentence the document returned equals the
\* one before the call.
C13_UpdateChangesFirstMatchOnly ==
    \A i \in 1..Len(calls) :
        calls[i].call.op = "update"
        => /\ calls[i].ok
           /\ IF FirstWithId(calls[i].before.content.sentences,
                             calls[i].call.sentence_id) = 0
              THEN calls[i].value = calls[i].before
              ELSE UpdatedAt(calls[i].before, calls[i].value,
                             FirstWithId(calls[i].before.content.sentences,
                                         calls[i].call.sentence_id),
                             calls[i].call.text)

\* C14: what an editor operation leaves and returns has the doc_id, the
\* metadata and the line records of the document before the call, so the
\* editor's document always has those of the document it was constructed on.
C14_OnlySentencesChange ==
    /\ \A i \in 1..Len(calls) :
          /\ calls[i].value.doc_id = calls[i].before.doc_id
          /\ calls[i].value.metadata = calls[i].before.metadata
          /\ calls[i].value.content.lines = calls[i].before.content.lines
    /\ ed # 0 =>
          /\ heap[ed].doc_id = heap[1].doc_id
          /\ heap[ed].metadata = heap[1].metadata
          /\ heap[ed].content.lines = heap[1].content.lines

\* A delete removed the first of two sentences: the document returned has
\* one sentence, total_sentences still says 2 and the line of the deleted
\* sentence still lists its id.
C14_CountersWentStale ==
    \E i \in 1..Len(calls) :
        /\ calls[i].call.op = "delete"
        /\ calls[i].ok
        /\ Len(calls[i].before.content.sentences) = 2
        /\ Len(calls[i].value.content.sentences) = 1
        /\ calls[i].value.metadata.total_sentences = 2
        /\ \E n \in 1..Len(calls[i].value.content.lines) :
              InList(IdOf(calls[i].before.content.sentences[1]),
                     calls[i].value.content.lines[n].sentence_ids)

\* ------------------------------------------------------------------------
\* src/mapping_generator.py: mappings as parse_mapping_response returns them.
\* A JSON value is [t |-> "null"], [t |-> "list", v |-> <<ids>>] or
\* [t |-> "dict", v |-> <<entries>>]; a dict keeps its entries [k, v] in
\* insertion order with distinct keys.  A mapping is a function from the
\* keys present in the object to JSON values.
\* ------------------------------------------------------------------------

\* Most ids and null values written in one mapping (keys, listed ids and
\* null values of both direction maps together).
MaxRefs == 5

Null == [t |-> "null"]

JList(l) == [t |-> "list", v |-> l]

JDict(d) == [t |-> "dict", v |-> d]

Fwd == "generated_doc_to_source_doc"

Rev == "source_doc_to_generated_doc"

\* d.get(key, default) on the entries of a dict.
DictGet(d, key, default) ==
    IF \E i \in 1..Len(d) : d[i].k = key
    THEN d[CHOOSE i \in 1..Len(d) : d[i].k = key].v
    ELSE default

\* mappings.get(key, {}).
DirectionOf(m, key) == IF key \in DOMAIN m THEN m[key] ELSE JDict(<< >>)

\* The documents of the data file: two source documents and the processed
\* document.
MapDoc(doc_id, ids) ==
    [doc_id |-> doc_id,
     metadata |-> [title |-> "T"],
     content |-> [lines |-> << >>,
                  sentences |-> [n \in 1..Len(ids) |->
                                    [id |-> ids[n], text |-> <<"a">>,
                                     lines |-> <<1>>, doc_id |-> doc_id]]]]

SourceDocs == <<MapDoc("src_001", <<"s1">>), MapDoc("src_002", <<"s2">>)>>

ProcessedDoc == MapDoc("gen_001", <<"g1">>)

\* The ids a mapping may name: a processed sentence, a source sentence (of
\* the second source document) and an id of no sentence.
MapIds == {"g1", "s2", "x9"}

\* source_sentence_ids and processed_sentence_ids of validate_mappings.
SentenceIdsOf(docs) ==
    UNION {{docs[i].content.sentences[n].id :
               n \in 1..Len(docs[i].content.sentences)} : i \in 1..Len(docs)}

\* Ids and null values written in a dict, and in a mapping.
RECURSIVE RefsOfDict(_)
RefsOfDict(d) ==
    IF d = << >> THEN 0
    ELSE 1 + (IF Head(d).v.t = "list" THEN Len(Head(d).v.v) ELSE 1)
           + RefsOfDict(Tail(d))

RefsOf(m) ==
    (IF Fwd \in DOMAIN m /\ m[Fwd].t = "dict" THEN RefsOfDict(m[Fwd].v) ELSE 0)
        + (IF Rev \in DOMAIN m /\ m[Rev].t = "dict" THEN RefsOfDict(m[Rev].v) ELSE 0)

\* m with key set to value (the key is added when it is not there).
WithKey(m, key, value) ==
    [k \in DOMAIN m \cup {key} |-> IF k = key THEN value ELSE m[k]]

\* ------------------------------------------------------------------------
\* validate_mappings
\* ------------------------------------------------------------------------

\* The two error messages and the warning message (translated; the code
\* formats the id into a fixed text).
UnknownProcessed(proc_id) == "unknown processed sentence id: " \o proc_id

UnknownSource(source_id) == "unknown source sentence id: " \o source_id

Mismatch(proc_id, source_id) ==
    "two-way mismatch: " \o proc_id \o " -> " \o source_id

\* A check of the listed ids that stops at the first one not in known.
ListedErrorsFirstOnly(ids, known, kind) ==
    LET Bad(x) == x \notin known
    IN  [i \in 1..(IF SelectSeq(ids, Bad) = << >> THEN 0 ELSE 1) |->
            IF kind = "source" THEN UnknownSource(SelectSeq(ids, Bad)[i])
            ELSE UnknownProcessed(SelectSeq(ids, Bad)[i])]

\* The messages for the listed ids that are not in known, in list order.
ListedErrors(ids, known, kind) ==
    LET Bad(x) == x \notin known
    IN  [i \in 1..Len(SelectSeq(ids, Bad)) |->
            IF kind = "source" THEN UnknownSource(SelectSeq(ids, Bad)[i])
            ELSE UnknownProcessed(SelectSeq(ids, Bad)[i])]

\* One of the first two loops of validate_mappings over the entries from
\* position n on: a message for a key that is not in key_ids, then one for
\* every listed id that is not in listed_ids.  Iterating a value that is
\* null raises TypeError.  Yields [raised, errors].
RECURSIVE ScanEntries(_, _, _, _, _)
ScanEntries(d, n, key_ids, listed_ids, listed_kind) ==
    IF n > Len(d) THEN [raised |-> FALSE, errors |-> << >>]
    ELSE IF d[n].v.t # "list" THEN [raised |-> TRUE, errors |-> << >>]
    ELSE [raised |-> ScanEntries(d, n + 1, key_ids, listed_ids, listed_kind).raised,
          errors |->
              (IF d[n].k \in key_ids THEN << >>
               ELSE IF listed_kind = "source" THEN <<UnknownProcessed(d[n].k)>>
               ELSE <<UnknownSource(d[n].k)>>)
              \o ListedErrors(d[n].v.v, listed_ids, listed_kind)
              \o ScanEntries(d, n + 1, key_ids, listed_ids, listed_kind).errors]

\* mappings.get(key, {}).items() and the loop over it: a direction that is
\* null has no items() and raises AttributeError.
ScanDirection(m, key, key_ids, listed_ids, listed_kind) ==
    IF DirectionOf(m, key).t # "dict" THEN [raised |-> TRUE, errors |-> << >>]
    ELSE ScanEntries(DirectionOf(m, key).v, 1, key_ids, listed_ids, listed_kind)

\* Warnings only for source ids that have a reverse entry.
EntryWarningsIgnoringAbsent(proc_id, source_ids, rev) ==
    LET Missing(source_id) ==
            /\ \E j \in 1..Len(rev) : rev[j].k = source_id
            /\ ~InList(proc_id, DictGet(rev, source_id, JList(<< >>)).v)
    IN  [i \in 1..Len(SelectSeq(source_ids, Missing)) |->
            Mismatch(proc_id, SelectSeq(source_ids, Missing)[i])]

\* The warnings of one forward entry: one for each listed source_id whose
\* reverse entry (default []) does not hold proc_id, in list order.
EntryWarnings(proc_id, source_ids, rev) ==
    LET Missing(source_id) ==
            ~InList(proc_id, DictGet(rev, source_id, JList(<< >>)).v)
    IN  [i \in 1..Len(SelectSeq(source_ids, Missing)) |->
            Mismatch(proc_id, SelectSeq(source_ids, Missing)[i])]

\* The third loop of validate_mappings over the forward entries from n on.
RECURSIVE ScanConsistency(_, _, _)
ScanConsistency(fwd, n, rev) ==
    IF n > Len(fwd) THEN << >>
    ELSE EntryWarnings(fwd[n].k, fwd[n].v.v, rev)
             \o ScanConsistency(fwd, n + 1, rev)

\* Whether the third loop raises: a value that cannot be iterated or
\* searched, or a reverse direction without get().
ConsistencyRaises(m) ==
    \/ DirectionOf(m, Fwd).t # "dict"
    \/ \E i \in 1..Len(DirectionOf(m, Fwd).v) : DirectionOf(m, Fwd).v[i].v.t # "list"
    \/ /\ DirectionOf(m, Fwd).v # << >>
       /\ \E i \in 1..Len(DirectionOf(m, Fwd).v) : DirectionOf(m, Fwd).v[i].v.v # << >>
       /\ \/ DirectionOf(m, Rev).t # "dict"
          \/ \E j \in 1..Len(DirectionOf(m, Rev).v) :
                /\ DirectionOf(m, Rev).v[j].v.t # "list"
                /\ \E i \in 1..Len(DirectionOf(m, Fwd).v) :
                      InList(DirectionOf(m, Rev).v[j].k, DirectionOf(m, Fwd).v[i].v.v)

\* A gate that lets every validation result through.
HasErrorsIgnored(validation_errors) == FALSE

\* validation['errors'] is truthy: update_mapping_single returns False
\* without writing.
HasErrors(validation_errors) == validation_errors # << >>

\* ------------------------------------------------------------------------
\* generate_mappings_with_anthropic / generate_mappings_with_openai
\* ------------------------------------------------------------------------

\* 'confidence' of an entry of the mappings array.
DefaultConfidence == 85

\* The entries of the mappings array for one forward entry: one for each
\* listed source id, when both sentences have a text.
ArrayEntries(target_id, source_ids) ==
    LET Known(source_id) ==
            /\ source_id \in SentenceIdsOf(SourceDocs)
            /\ target_id \in SentenceIdsOf(<<ProcessedDoc>>)
    IN  [i \in 1..Len(SelectSeq(source_ids, Known)) |->
            [source_id |-> SelectSeq(source_ids, Known)[i],
             target_id |-> target_id,
             source_sentence |-> <<"a">>,
             target_sentence |-> <<"a">>,
             type |-> "summary",
             confidence |-> DefaultConfidence]]

\* convert_mapping_to_array over the forward entries from n on.
RECURSIVE convert_mapping_to_array(_, _)
convert_mapping_to_array(fwd, n) ==
    IF n > Len(fwd) THEN << >>
    ELSE ArrayEntries(fwd[n].k, fwd[n].v.v) \o convert_mapping_to_array(fwd, n + 1)

\* len() and items() of a null direction, and iterating a null value, raise
\* inside generate_mappings_with_openai.
ConvertRaises(m) ==
    \/ DirectionOf(m, Fwd).t # "dict"
    \/ \E i \in 1..Len(DirectionOf(m, Fwd).v) : DirectionOf(m, Fwd).v[i].v.t # "list"

\* What generate_mappings_with_openai returns for a response it converts.
OpenAIResult(m) ==
    [key \in {"mappings", Fwd, Rev} |->
        IF key = "mappings"
        THEN convert_mapping_to_array(DirectionOf(m, Fwd).v, 1)
        ELSE DirectionOf(m, key)]

\* ------------------------------------------------------------------------
\* update_mapping_single: the LLM response, the generation, the validation
\* and the gate before the output file is written.
\* ------------------------------------------------------------------------

InitUpdate ==
    /\ parsed = << >>
    /\ llm_provider = ""
    /\ mappings = << >>
    /\ errors = << >>
    /\ warnings = << >>
    /\ upc = "llm"
    /\ returned = "none"
    /\ output_file = [exists |-> FALSE]
    /\ NoStructuring
    /\ heap = << >>
    /\ NoEditor
    /\ NoHelpers
    /\ NoSearch
    /\ NoBatch
    /\ NoPrompts

\* The response holds one more direction key, with an empty object or null.
ResponseAddsDirection ==
    /\ upc = "llm"
    /\ \E key \in {Fwd, Rev} \ DOMAIN parsed :
          \E value \in {JDict(<< >>), Null} :
              parsed' = WithKey(parsed, key, value)
    /\ UNCHANGED <<svars, fvars, bvars, pvars, heap, evars, hvars, llm_provider, mappings, errors,
                   warnings, upc, returned, output_file>>

\* The response holds one more entry of a direction: a new key with an
\* empty list or null.
ResponseAddsEntry ==
    /\ upc = "llm"
    /\ \E key \in DOMAIN parsed :
          /\ parsed[key].t = "dict"
          /\ \E k \in MapIds \ {parsed[key].v[i].k : i \in 1..Len(parsed[key].v)} :
                \E value \in {JList(<< >>), Null} :
                    /\ RefsOf(parsed) + (IF value = Null THEN 2 ELSE 1) <= MaxRefs
                    /\ parsed' = [parsed EXCEPT ![key].v =
                                     Append(@, [k |-> k, v |-> value])]
    /\ UNCHANGED <<svars, fvars, bvars, pvars, heap, evars, hvars, llm_provider, mappings, errors,
                   warnings, upc, returned, output_file>>

\* The response lists one more id in the last entry of a direction.
ResponseAddsId ==
    /\ upc = "llm"
    /\ RefsOf(parsed) < MaxRefs
    /\ \E key \in DOMAIN parsed :
          /\ parsed[key].t = "dict"
          /\ parsed[key].v # << >>
          /\ parsed[key].v[Len(parsed[key].v)].v.t = "list"
          /\ \E id \in MapIds :
                parsed' = [parsed EXCEPT ![key].v[Len(parsed[key].v)].v.v =
                               Append(@, id)]
    /\ UNCHANGED <<svars, fvars, bvars, pvars, heap, evars, hvars, llm_provider, mappings, errors,
                   warnings, upc, returned, output_file>>

\* The generation raises (the API call, no JSON in the response, an unknown
\* provider): update_mapping_single returns False.
GenerationFails ==
    /\ upc = "llm"
    /\ parsed = << >>
    /\ \E provider \in {"anthropic", "openai", "other"} : llm_provider' = provider
    /\ upc' = "generation_failed"
    /\ returned' = "False"
    /\ UNCHANGED <<svars, fvars, bvars, pvars, heap, evars, hvars, parsed, mappings, errors, warnings,
                   output_file>>

\* generate_mappings_with_anthropic returns the parsed response as it is.
GenerateAnthropic ==
    /\ upc = "llm"
    /\ llm_provider' = "anthropic"
    /\ mappings' = parsed
    /\ upc' = "validate_forward"
    /\ UNCHANGED <<svars, fvars, bvars, pvars, heap, evars, hvars, parsed, errors, warnings, returned,
                   output_file>>

\* generate_mappings_with_openai converts the parsed response; a response
\* it cannot convert makes update_mapping_single return False.
GenerateOpenAI ==
    /\ upc = "llm"
    /\ llm_provider' = "openai"
    /\ IF ConvertRaises(parsed)
       THEN /\ upc' = "generation_failed"
            /\ returned' = "False"
            /\ UNCHANGED mappings
       ELSE /\ mappings' = OpenAIResult(parsed)
            /\ upc' = "validate_forward"
            /\ UNCHANGED returned
    /\ UNCHANGED <<svars, fvars, bvars, pvars, heap, evars, hvars, parsed, errors, warnings, output_file>>

\* validate_mappings, first loop: generated_doc_to_source_doc.
ValidateForward ==
    /\ upc = "validate_forward"
    /\ IF ScanDirection(mappings, Fwd, SentenceIdsOf(<<ProcessedDoc>>),
                        SentenceIdsOf(SourceDocs), "source").raised
       THEN upc' = "raised" /\ returned' = "raised" /\ UNCHANGED errors
       ELSE /\ errors' = ScanDirection(mappings, Fwd, SentenceIdsOf(<<ProcessedDoc>>),
                                       SentenceIdsOf(SourceDocs), "source").errors
            /\ upc' = "validate_reverse"
            /\ UNCHANGED returned
    /\ UNCHANGED <<svars, fvars, bvars, pvars, heap, evars, hvars, parsed, llm_provider, mappings,
                   warnings, output_file>>

\* validate_mappings, second loop: source_doc_to_generated_doc.
ValidateReverse ==
    /\ upc = "validate_reverse"
    /\ IF ScanDirection(mappings, Rev, SentenceIdsOf(SourceDocs),
                        SentenceIdsOf(<<ProcessedDoc>>), "processed").raised
       THEN upc' = "raised" /\ returned' = "raised" /\ UNCHANGED errors
       ELSE /\ errors' = errors \o
                   ScanDirection(mappings, Rev, SentenceIdsOf(SourceDocs),
                                 SentenceIdsOf(<<ProcessedDoc>>), "processed").errors
            /\ upc' = "validate_consistency"
            /\ UNCHANGED returned
    /\ UNCHANGED <<svars, fvars, bvars, pvars, heap, evars, hvars, parsed, llm_provider, mappings,
                   warnings, output_file>>

\* validate_mappings, third loop and return.
ValidateConsistency ==
    /\ upc = "validate_consistency"
    /\ IF ConsistencyRaises(mappings)
       THEN upc' = "raised" /\ returned' = "raised" /\ UNCHANGED warnings
       ELSE /\ warnings' = ScanConsistency(DirectionOf(mappings, Fwd).v, 1,
                                           DirectionOf(mappings, Rev).v)
            /\ upc' = "validated"
            /\ UNCHANGED returned
    /\ UNCHANGED <<svars, fvars, bvars, pvars, heap, evars, hvars, parsed, llm_provider, mappings,
                   errors, output_file>>

\* if validation['errors']: return False.
RejectErrors ==
    /\ upc = "validated"
    /\ HasErrors(errors)
    /\ upc' = "rejected"
    /\ returned' = "False"
    /\ UNCHANGED <<svars, fvars, bvars, pvars, heap, evars, hvars, parsed, llm_provider, mappings,
                   errors, warnings, output_file>>

\* data['mappings'] = mappings; json.dump(data, f).
WriteOutput ==
    /\ upc = "validated"
    /\ ~HasErrors(errors)
    /\ output_file' = [exists |-> TRUE,
                       data |-> [source_documents |-> SourceDocs,
                                 processed_document |-> ProcessedDoc,
                                 mappings |-> mappings]]
    /\ upc' = "written"
    /\ UNCHANGED <<svars, fvars, bvars, pvars, heap, evars, hvars, parsed, llm_provider, mappings,
                   errors, warnings, returned>>

\* return True.
ReturnTrue ==
    /\ upc = "written"
    /\ upc' = "saved"
    /\ returned' = "True"
    /\ UNCHANGED <<svars, fvars, bvars, pvars, heap, evars, hvars, parsed, llm_provider, mappings,
                   errors, warnings, output_file>>

NextUpdate ==
    \/ ResponseAddsDirection
    \/ ResponseAddsEntry
    \/ ResponseAddsId
    \/ GenerationFails
    \/ GenerateAnthropic
    \/ GenerateOpenAI
    \/ ValidateForward
    \/ ValidateReverse
    \/ ValidateConsistency
    \/ RejectErrors
    \/ WriteOutput
    \/ ReturnTrue

SpecUpdate == InitUpdate /\ [][NextUpdate]_vars

\* ------------------------------------------------------------------------
\* Properties of validate_mappings and update_mapping_single
\* ------------------------------------------------------------------------

\* validate_mappings has returned.
ValidationReturned == upc \in {"validated", "rejected", "written", "saved"}

\* How often x is in a list.
CountIn(list, x) == Cardinality({i \in 1..Len(list) : list[i] = x})

\* How often id is a key of the dict d, and how often it is listed in d.
KeyCount(d, id) == Cardinality({i \in 1..Len(d) : d[i].k = id})

ListedCount(d, id) ==
    Cardinality(UNION {{<<i, j>> : j \in {n \in 1..Len(d[i].v.v) : d[i].v.v[n] = id}} :
                       i \in 1..Len(d)})

\* C15: when validate_mappings returns, errors holds one message for each
\* key of generated_doc_to_source_doc that is no sentence id of the
\* processed document, one for each occurrence of a listed id that is no
\* sentence id of a source document, the mirrored messages for
\* source_doc_to_generated_doc, and nothing else; it is empty exactly when
\* every id named exists.
C15_ErrorsAreTheUnknownIds ==
    ValidationReturned =>
        /\ \A id \in MapIds :
              /\ CountIn(errors, UnknownProcessed(id)) =
                     IF id \in SentenceIdsOf(<<ProcessedDoc>>) THEN 0
                     ELSE KeyCount(DirectionOf(mappings, Fwd).v, id)
                              + ListedCount(DirectionOf(mappings, Rev).v, id)
              /\ CountIn(errors, UnknownSource(id)) =
                     IF id \in SentenceIdsOf(SourceDocs) THEN 0
                     ELSE ListedCount(DirectionOf(mappings, Fwd).v, id)
                              + KeyCount(DirectionOf(mappings, Rev).v, id)
        /\ \A i \in 1..Len(errors) :
              \E id \in MapIds :
                  errors[i] \in {UnknownProcessed(id), UnknownSource(id)}
        /\ (errors = << >>) <=>
              \A id \in MapIds :
                  /\ (KeyCount(DirectionOf(mappings, Fwd).v, id)
                          + ListedCount(DirectionOf(mappings, Rev).v, id) > 0)
                     => id \in SentenceIdsOf(<<ProcessedDoc>>)
                  /\ (ListedCount(DirectionOf(mappings, Fwd).v, id)
                          + KeyCount(DirectionOf(mappings, Rev).v, id) > 0)
                     => id \in SentenceIdsOf(SourceDocs)

\* A mapping with an unknown key listing an unknown id twice, and a reverse
\* entry with both ids in the wrong direction, gave five errors.
C15_FiveViolationsReported ==
    /\ upc = "rejected"
    /\ DirectionOf(mappings, Fwd).v = <<[k |-> "x9", v |-> JList(<<"x9", "x9">>)]>>
    /\ DirectionOf(mappings, Rev).v = <<[k |-> "g1", v |-> JList(<<"s2">>)]>>
    /\ errors = <<UnknownProcessed("x9"), UnknownSource("x9"), UnknownSource("x9"),
                  UnknownSource("g1"), UnknownProcessed("s2")>>

\* The reverse map has an entry for source_id that lists proc_id.
ReverseLists(rev, source_id, proc_id) ==
    \E j \in 1..Len(rev) : rev[j].k = source_id /\ InList(proc_id, rev[j].v.v)

\* How often source_id is listed under the key proc_id of the dict d.
PairCount(d, proc_id, source_id) ==
    Cardinality(UNION {{<<i, j>> : j \in {n \in 1..Len(d[i].v.v) :
                                             d[i].v.v[n] = source_id}} :
                       i \in {m \in 1..Len(d) : d[m].k = proc_id}})

\* C16: when validate_mappings returns, warnings holds one message for each
\* listing of a source id under a target in generated_doc_to_source_doc
\* whose reverse entry is absent or does not list the target, and nothing
\* else; a mapping whose ids all exist has no errors, whatever its warnings.
C16_WarningsAreTheMissingReverses ==
    ValidationReturned =>
        /\ \A proc_id \in MapIds : \A source_id \in MapIds :
              CountIn(warnings, Mismatch(proc_id, source_id)) =
                  IF ReverseLists(DirectionOf(mappings, Rev).v, source_id, proc_id)
                  THEN 0
                  ELSE PairCount(DirectionOf(mappings, Fwd).v, proc_id, source_id)
        /\ \A i \in 1..Len(warnings) :
              \E proc_id \in MapIds : \E source_id \in MapIds :
                  warnings[i] = Mismatch(proc_id, source_id)
        /\ (\A id \in MapIds :
                /\ (KeyCount(DirectionOf(mappings, Fwd).v, id)
                        + ListedCount(DirectionOf(mappings, Rev).v, id) > 0)
                   => id \in SentenceIdsOf(<<ProcessedDoc>>)
                /\ (ListedCount(DirectionOf(mappings, Fwd).v, id)
                        + KeyCount(DirectionOf(mappings, Rev).v, id) > 0)
                   => id \in SentenceIdsOf(SourceDocs))
           => errors = << >>

\* The forward map lists s2 under g1 and the reverse entry of s2 is empty:
\* one warning and no error.
C16_OneWarningNoError ==
    /\ ValidationReturned
    /\ llm_provider = "anthropic"
    /\ DirectionOf(mappings, Fwd).v = <<[k |-> "g1", v |-> JList(<<"s2">>)]>>
    /\ DirectionOf(mappings, Rev).v = <<[k |-> "s2", v |-> JList(<< >>)]>>
    /\ warnings = <<Mismatch("g1", "s2")>>
    /\ errors = << >>

\* C16 as stated: one warning for each pair (target, source) of the forward
\* map whose reverse entry is absent or does not list the target, however
\* often the source is listed under the target.
C16_OneWarningPerPair ==
    ValidationReturned =>
        \A proc_id \in MapIds : \A source_id \in MapIds :
            CountIn(warnings, Mismatch(proc_id, source_id)) =
                IF /\ PairCount(DirectionOf(mappings, Fwd).v, proc_id, source_id) > 0
                   /\ ~ReverseLists(DirectionOf(mappings, Rev).v, source_id, proc_id)
                THEN 1 ELSE 0

\* C17: validate_mappings returns for every mapping: it never raises.
C17_ValidationNeverRaises == upc # "raised"

\* C18: the output file exists only after validate_mappings returned no
\* errors, and then it holds the mappings; update_mapping_single returns
\* True only with the file written; after a failed generation and after a
\* validation with errors it returns False and there is no file; a
\* validation without errors is never rejected.
C18_WriteIsGatedOnValidation ==
    /\ output_file.exists =>
          /\ upc \in {"written", "saved"}
          /\ errors = << >>
          /\ output_file.data.mappings = mappings
    /\ returned = "True" <=> upc = "saved"
    /\ upc = "saved" => output_file.exists
    /\ upc = "generation_failed" => (returned = "False" /\ ~output_file.exists)
    /\ upc = "rejected" =>
          (errors # << >> /\ returned = "False" /\ ~output_file.exists)
    /\ errors # << >> => (returned # "True" /\ ~output_file.exists)

\* A mapping from the OpenAI path with warnings and no errors was written
\* and update_mapping_single returned True.
C18_SavedWithWarnings ==
    /\ upc = "saved"
    /\ llm_provider = "openai"
    /\ returned = "True"
    /\ warnings # << >>
    /\ output_file.exists
    /\ output_file.data.mappings.mappings # << >>

\* ------------------------------------------------------------------------
\* Properties of the placement of sentences in structure_document
\* ------------------------------------------------------------------------

\* The iterations of the loop that stored a sentence, in order.
StoredIterations ==
    LET Located(t) == t.how \in {"exact", "fuzzy"}
    IN  SelectSeq(st.trace, Located)

\* C19: within one pass over the sentences the search cursor never
\* decreases, and of two consecutive stored sentences the later one is
\* located at or after the end (start + length of its text) of the earlier
\* one, whichever search located them.
C19_PlacementIsMonotonic ==
    /\ [][pc = "loop" => st'.search_pos >= st.search_pos]_vars
    /\ [](/\ Len(StoredIterations) = Len(st.sentence_data)
          /\ \A k \in 1..Len(StoredIterations) :
                /\ StoredIterations[k].end =
                       StoredIterations[k].start + Len(st.sentence_data[k].text)
                /\ k > 1 => StoredIterations[k].start >= StoredIterations[k - 1].end)

\* A returned document whose first sentence was located by text.find and
\* whose second by fuzzy_search, at the end of the first.
C19_ExactThenFuzzy ==
    /\ pc = "done"
    /\ Len(StoredIterations) = 2
    /\ StoredIterations[1].how = "exact"
    /\ StoredIterations[2].how = "fuzzy"
    /\ StoredIterations[2].start = StoredIterations[1].end

\* C20: in a returned document sentence id s is listed in the sentence_ids
\* of line L exactly when L is in the lines of sentence s, and then once;
\* every entry of a line's sentence_ids is the id of a stored sentence; the
\* entries of a line are in the order of the sentences.
C20_LinesListTheirSentences ==
    pc = "done" =>
        \A n \in 1..Len(result.content.lines) :
            LET ids == result.content.lines[n].sentence_ids
                sents == result.content.sentences
            IN  /\ \A k \in 1..Len(sents) :
                      CountIn(ids, sents[k].id) =
                          IF InList(result.content.lines[n].line_num, sents[k].lines)
                          THEN 1 ELSE 0
                /\ \A i \in 1..Len(ids) : \E k \in 1..Len(sents) : sents[k].id = ids[i]
                /\ \A i \in 1..Len(ids) : \A j \in 1..Len(ids) :
                      i < j =>
                          \E k \in 1..Len(sents) : \E m \in 1..Len(sents) :
                              k < m /\ sents[k].id = ids[i] /\ sents[m].id = ids[j]

\* A returned document with a sentence on two lines and a line with two
\* sentences.
C20_SentenceOnTwoLines ==
    /\ pc = "done"
    /\ Len(result.content.sentences) = 2
    /\ Len(result.content.sentences[2].lines) = 2
    /\ \E n \in 1..Len(result.content.lines) :
          Len(result.content.lines[n].sentence_ids) = 2

\* The offsets of range(sent_start, min(sent_end, len(text))) for the k-th
\* stored sentence.
SpanOffsets(k) ==
    StoredIterations[k].start ..
        (Min(StoredIterations[k].end, Len(args.text)) - 1)

\* C21: the lines of every stored sentence are, in ascending order and
\* without duplicates, exactly the numbers of the line records one of whose
\* offsets start <= o < end lies in the located span of the sentence.
C21_LinesAreTheTouchedLines ==
    \A k \in 1..Len(st.sentence_data) :
        LET lines == st.sentence_data[k].lines
        IN  /\ \A i \in 1..(Len(lines) - 1) : lines[i] < lines[i + 1]
            /\ {lines[i] : i \in 1..Len(lines)} =
                   {st.line_data[n].line_num : n \in
                       {m \in 1..Len(st.line_data) :
                           \E o \in SpanOffsets(k) :
                               st.line_data[m].start <= o /\ o < st.line_data[m].end}}

\* A stored sentence whose span begins on line 1, passes the newline and
\* ends on line 2, in a text of three lines: its lines are 1 and 2.
C21_SpanOverNewline ==
    /\ pc = "done"
    /\ Len(st.line_data) = 3
    /\ Len(st.sentence_data) = 1
    /\ st.sentence_data[1].lines = <<1, 2>>

\* C22: every stored sentence, located by text.find or by fuzzy_search, has
\* a non-empty lines list.
C22_LocatedSentencesHaveLines ==
    \A k \in 1..Len(st.sentence_data) : st.sentence_data[k].lines # << >>

\* s without its whitespace characters.
RemoveWS(s) ==
    LET Solid(c) == ~IsSpace(c)
    IN  SelectSeq(s, Solid)

\* The texts of the line records numbered in lines, concatenated.
RECURSIVE LinesText(_, _)
LinesText(line_data, lines) ==
    IF lines = << >> THEN << >>
    ELSE line_data[lines[1]].text \o LinesText(line_data, Tail(lines))

\* C23: for every sentence record with non-empty lines of a returned
\* document, the concatenated texts of its lines contain the characters of
\* the sentence text in order, whitespace aside.
C23_LinesCoverTheSentence ==
    pc = "done" =>
        \A k \in 1..Len(result.content.sentences) :
            result.content.sentences[k].lines # << >> =>
                Find(RemoveWS(LinesText(result.content.lines,
                                        result.content.sentences[k].lines)),
                     RemoveWS(result.content.sentences[k].text), 0) # -1

\* ------------------------------------------------------------------------
\* Properties of build_char_to_line_map
\* ------------------------------------------------------------------------

\* The number of newline characters of s.
Newlines(s) == Cardinality({i \in 1..Len(s) : s[i] = "\n"})

\* C24: build_char_to_line_map gives one line record per newline-delimited
\* segment of the text, numbered from 1; the first starts at offset 0, each
\* ends at start + len(text), each next one starts one after the previous
\* end, and the text between start and end is the record's text; so a text
\* without newline (the empty text too) has one record and an empty line
\* has start = end.
C24_LineRecordsPartitionTheText ==
    LET line_data == st.line_data
    IN  /\ Len(line_data) = Newlines(args.text) + 1
        /\ line_data[1].start = 0
        /\ \A n \in 1..Len(line_data) :
              /\ line_data[n].line_num = n
              /\ line_data[n].end = line_data[n].start + Len(line_data[n].text)
              /\ n > 1 => line_data[n].start = line_data[n - 1].end + 1
              /\ Slice(args.text, line_data[n].start, line_data[n].end)
                     = line_data[n].text
              /\ line_data[n].end <= Len(args.text)
              /\ line_data[n].text = << >> => line_data[n].start = line_data[n].end
              /\ pc = "start" => line_data[n].sentence_ids = << >>
        /\ args.text = << >> => (Len(line_data) = 1 /\ line_data[1].text = << >>)

\* A text of three lines, the second of them empty, has been split.
C24_EmptyLineInTheMiddle ==
    /\ pc = "loop"
    /\ Len(st.line_data) = 3
    /\ st.line_data[1].text # << >>
    /\ st.line_data[2].text = << >>
    /\ st.line_data[2].start = st.line_data[2].end

\* C25: the char_to_line map has offset o exactly when o lies in one line
\* record's start <= o < end, and maps it to that line's number; the
\* offsets of the newline characters and the offsets from len(text) on are
\* not mapped.
C25_MapCoversLineTextsOnly ==
    LET char_to_line_map == CharToLineMap(SplitLines(args.text))
    IN  /\ \A o \in 0..(Len(args.text) + 1) :
              \A n \in 1..Len(st.line_data) :
                  (o \in DOMAIN char_to_line_map /\ char_to_line_map[o] = n)
                      <=> (st.line_data[n].start <= o /\ o < st.line_data[n].end)
        /\ \A o \in DOMAIN char_to_line_map :
              /\ 0 <= o /\ o < Len(args.text)
              /\ args.text[o + 1] # "\n"
              /\ char_to_line_map[o] \in 1..Len(st.line_data)
        /\ \A o \in 0..(Len(args.text) - 1) :
              args.text[o + 1] # "\n" => o \in DOMAIN char_to_line_map

\* A sentence on the second line of a text got the line number 2 from the
\* map.
C25_SecondLineMapped ==
    /\ pc = "done"
    /\ Len(st.line_data) = 2
    /\ Len(st.sentence_data) = 1
    /\ st.sentence_data[1].lines = <<2>>
    /\ st.line_data[1].text # << >>

\* ------------------------------------------------------------------------
\* Properties of the search for a sentence
\* ------------------------------------------------------------------------

\* What one iteration of the loop did, given the results exact of text.find
\* and fuzzy of fuzzy_search from the cursor for the trimmed sentence
\* sent_text, and the entry last it left in the history.
IterationFollowsTheSearch(sent_text, exact, fuzzy, last) ==
    /\ last.idx = sent_idx
    /\ last.how = "empty" <=> sent_text = << >>
    /\ last.how = "exact" <=> (sent_text # << >> /\ exact # -1)
    /\ last.how = "fuzzy" <=> (sent_text # << >> /\ exact = -1 /\ fuzzy # -1)
    /\ last.how = "dropped" <=> (sent_text # << >> /\ exact = -1 /\ fuzzy = -1)
    /\ last.how = "exact" => last.start = exact
    /\ last.how = "fuzzy" => last.start = fuzzy
    /\ last.how \in {"empty", "dropped"} =>
          /\ st'.search_pos = st.search_pos
          /\ st'.line_data = st.line_data
          /\ st'.sentence_data = st.sentence_data
    /\ last.how \in {"exact", "fuzzy"} =>
          Len(st'.sentence_data) = Len(st.sentence_data) + 1

\* C26: a sentence is located by fuzzy_search only when text.find from the
\* cursor failed, and dropped only when both failed; a dropped sentence
\* leaves no record and changes neither the cursor nor the line records;
\* the loop goes on to every later sentence, and the call returns a
\* document.
C26_DroppedSentencesAreSkipped ==
    /\ [][(pc = "loop" /\ sent_idx' = sent_idx + 1) =>
             /\ Len(st'.trace) = Len(st.trace) + 1
             /\ IterationFollowsTheSearch(
                    Strip(sentences_texts[sent_idx + 1]),
                    Find(args.text, Strip(sentences_texts[sent_idx + 1]),
                         st.search_pos),
                    fuzzy_search(args.text, Strip(sentences_texts[sent_idx + 1]),
                                 st.search_pos),
                    st'.trace[Len(st'.trace)])]_vars
    /\ [](/\ pc \in {"loop", "done"} => Len(st.trace) = sent_idx
          /\ pc = "loop" => sent_idx <= Len(sentences_texts)
          /\ pc = "done" =>
                /\ sent_idx = Len(sentences_texts)
                /\ result.content.sentences = st.sentence_data
                /\ result.content.lines = st.line_data)

\* A returned document whose first sentence was dropped and whose second
\* was then located by fuzzy_search.
C26_DroppedThenLocated ==
    /\ pc = "done"
    /\ Len(st.trace) = 2
    /\ st.trace[1].how = "dropped"
    /\ st.trace[2].how = "fuzzy"
    /\ Len(result.content.sentences) = 1

\* ------------------------------------------------------------------------
\* Properties of fuzzy_search
\* ------------------------------------------------------------------------

\* C27: fuzzy_search returns -1 or an offset i >= start_pos; when it returns
\* i, the window at i is similar enough (ratio above 0.90) and no window at
\* an offset from start_pos up to i is; it returns -1 only when no window
\* at an offset of the text from start_pos on is similar enough.
C27_FirstSimilarWindowIsReturned ==
    fret.returned =>
        /\ fret.value = -1 \/ fret.value >= fcall.start_pos
        /\ fret.value = fuzzy_search(fcall.text, fcall.pattern, fcall.start_pos)
        /\ fret.value # -1 =>
              /\ WindowMatches(fcall.text, fcall.pattern, fret.value)
              /\ \A j \in fcall.start_pos..(fret.value - 1) :
                    ~WindowMatches(fcall.text, fcall.pattern, j)
        /\ fret.value = -1 =>
              \A j \in fcall.start_pos..Len(fcall.text) :
                  ~WindowMatches(fcall.text, fcall.pattern, j)

\* ------------------------------------------------------------------------
\* Properties of the segmentation step
\* ------------------------------------------------------------------------

\* C28: the sentences are the regex split of the text exactly when
\* sent_tokenize raised, and the call then goes on; when sent_tokenize
\* returned, the sentences are what it returned, an empty list included.
C28_FallbackOnlyOnTokenizerFailure ==
    pc \in {"loop", "done"} =>
        /\ nltk_failed => sentences_texts = RegexSplit(args.text)
        /\ ~nltk_failed => sentences_texts = tokenized
        /\ pc = "done" =>
              Len(result.content.sentences) <= Len(sentences_texts)

\* sent_tokenize returned an empty list for a text the regex split has a
\* sentence for, and the returned document has no sentence.
C28_EmptyTokenizerResultKept ==
    /\ pc = "done"
    /\ ~nltk_failed
    /\ tokenized = << >>
    /\ \E n \in 1..Len(RegexSplit(args.text)) :
          Find(args.text, Strip(RegexSplit(args.text)[n]), 0) # -1
              /\ Strip(RegexSplit(args.text)[n]) # << >>
    /\ result.content.sentences = << >>

\* ------------------------------------------------------------------------
\* src/mapping_generator.py: update_mappings_batch
\* ------------------------------------------------------------------------

MaxFiles == 3

\* The path of the i-th input file, as its stem and its suffix.
DataFile(i) == <<"f" \o ToString(i), ".json">>

\* The messages of the exceptions update_mapping_single lets through.
ExceptionTexts == {"'NoneType' object is not iterable", "No such file"}

\* output_path / f"{input_name}_mapped.json", input_name being the stem.
OutputFileOf(data_file) == "out/" \o data_file[1] \o "_mapped.json"

\* results after a file for which update_mapping_single returned True.
Succeeded(res, data_file) ==
    [res EXCEPT !.success = @ + 1,
                !.details = Append(@, [file |-> data_file, status |-> "success",
                                       output |-> OutputFileOf(data_file)])]

\* results after a file that failed, with the error text recorded.
Failed(res, data_file, error) ==
    [res EXCEPT !.failed = @ + 1,
                !.details = Append(@, [file |-> data_file, status |-> "failed",
                                       error |-> error])]

\* A loop that stops after any failure, whatever the flag says.
BreaksAlways(flag) == TRUE

\* `if not continue_on_error: break` after a failure.
BreaksAfterFailure(flag) == ~flag

InitBatch ==
    /\ \E n \in 0..MaxFiles : data_files = [i \in 1..n |-> DataFile(i)]
    /\ continue_on_error \in BOOLEAN
    /\ bidx = 0
    /\ results = [total |-> Len(data_files), success |-> 0, failed |-> 0,
                  skipped |-> 0, details |-> << >>]
    /\ bpc = "loop"
    /\ NoStructuring
    /\ heap = << >>
    /\ NoEditor
    /\ NoHelpers
    /\ NoMapping
    /\ NoSearch
    /\ NoPrompts

\* update_mapping_single returned True for the next file.
FileSucceeds ==
    /\ bpc = "loop"
    /\ bidx < Len(data_files)
    /\ results' = Succeeded(results, data_files[bidx + 1])
    /\ bidx' = bidx + 1
    /\ UNCHANGED <<svars, heap, evars, hvars, mvars, fvars, pvars, data_files,
                   continue_on_error, bpc>>

\* update_mapping_single returned False for the next file.
FileFails ==
    /\ bpc = "loop"
    /\ bidx < Len(data_files)
    /\ results' = Failed(results, data_files[bidx + 1], "Validation failed")
    /\ bidx' = bidx + 1
    /\ bpc' = IF BreaksAfterFailure(continue_on_error) THEN "stopped" ELSE "loop"
    /\ UNCHANGED <<svars, heap, evars, hvars, mvars, fvars, pvars, data_files,
                   continue_on_error>>

\* update_mapping_single raised an exception for the next file.
FileRaises ==
    /\ bpc = "loop"
    /\ bidx < Len(data_files)
    /\ \E e \in ExceptionTexts :
          results' = Failed(results, data_files[bidx + 1], e)
    /\ bidx' = bidx + 1
    /\ bpc' = IF BreaksAfterFailure(continue_on_error) THEN "stopped" ELSE "loop"
    /\ UNCHANGED <<svars, heap, evars, hvars, mvars, fvars, pvars, data_files,
                   continue_on_error>>

\* The loop is over or was left by break: print the summary and return.
BatchReturn ==
    /\ \/ bpc = "loop" /\ bidx = Len(data_files)
       \/ bpc = "stopped"
    /\ bpc' = "returned"
    /\ UNCHANGED <<svars, heap, evars, hvars, mvars, fvars, pvars, data_files,
                   continue_on_error, bidx, results>>

NextBatch ==
    \/ FileSucceeds
    \/ FileFails
    \/ FileRaises
    \/ BatchReturn

SpecBatch == InitBatch /\ [][NextBatch]_vars

\* C29: update_mappings_batch takes the files in input order and records
\* one details entry per file taken, with success + failed the number of
\* entries; with continue_on_error it never leaves the loop early, so on
\* return every file has its entry and success + failed = total; without it
\* the loop is left right after the first failure and only then.
C29_BatchSurvivesFailures ==
    /\ Len(results.details) = bidx
    /\ results.success + results.failed = Len(results.details)
    /\ results.total = Len(data_files)
    /\ results.skipped = 0
    /\ \A i \in 1..Len(results.details) : results.details[i].file = data_files[i]
    /\ results.success =
           Cardinality({i \in 1..Len(results.details) :
                           results.details[i].status = "success"})
    /\ continue_on_error =>
          /\ bpc # "stopped"
          /\ bpc = "returned" =>
                /\ Len(results.details) = results.total
                /\ results.success + results.failed = results.total
    /\ ~continue_on_error =>
          /\ \A i \in 1..Len(results.details) :
                results.details[i].status = "failed" =>
                    (i = Len(results.details) /\ bpc \in {"stopped", "returned"})
          /\ (bpc = "returned" /\ Len(results.details) < results.total) =>
                results.details[Len(results.details)].status = "failed"

\* A batch of three files with continue_on_error returned after the first
\* file raised, the second failed validation and the third succeeded.
C29_ThirdFileProcessedAfterTwoFailures ==
    /\ bpc = "returned"
    /\ continue_on_error
    /\ results.total = 3
    /\ results.details[1].status = "failed"
    /\ results.details[1].error # "Validation failed"
    /\ results.details[2].status = "failed"
    /\ results.details[2].error = "Validation failed"
    /\ results.details[3].status = "success"
    /\ results.success = 1
    /\ results.failed = 2

\* ------------------------------------------------------------------------
\* src/prompt/prompt_manager.py: PromptManager
\* A file of templates_dir is [kind |-> "missing"], [kind |-> "empty"] (it
\* exists and yaml.safe_load gives None) or [kind |-> "yaml", templates |->
\* <<template_info, ...>>].  The cache is a function from the names of the
\* cached files to their templates, a function from task_id to
\* template_info.
\* ------------------------------------------------------------------------

\* Most PromptManager calls and file changes in one run.
MaxCalls == 3

YamlFiles == {"mapping.yaml", "generate.yaml"}

TaskIds == {"t1", "zz"}

Yaml(template_list) == [kind |-> "yaml", templates |-> template_list]

FileContents ==
    {[kind |-> "missing"],
     [kind |-> "empty"],
     Yaml(<< >>),
     Yaml(<<[task_id |-> "t1", template |-> "old {{ x }}"]>>),
     Yaml(<<[task_id |-> "", template |-> "unnamed"],
            [task_id |-> "t1", template |-> ""]>>)}

\* The loop that keys the template_info records by their task_id, those
\* without one left out, a later record replacing an earlier one.
RECURSIVE TemplatesOf(_)
TemplatesOf(template_list) ==
    IF template_list = << >> THEN << >>
    ELSE LET info == template_list[Len(template_list)]
             rest == TemplatesOf(SubSeq(template_list, 1, Len(template_list) - 1))
         IN  IF info.task_id = "" THEN rest
             ELSE [t \in DOMAIN rest \cup {info.task_id} |->
                      IF t = info.task_id THEN info ELSE rest[t]]

\* d with the entry key -> value set.
CachePut(d, key, value) ==
    [k \in DOMAIN d \cup {key} |-> IF k = key THEN value ELSE d[k]]

\* A cache check by truthiness of the cached templates, not by membership.
CachedNonEmpty(templates_cache, yaml_file) ==
    yaml_file \in DOMAIN templates_cache /\ templates_cache[yaml_file] # << >>

\* yaml_file in self._templates_cache.
Cached(templates_cache, yaml_file) == yaml_file \in DOMAIN templates_cache

\* load_templates(yaml_file) on a cache and a directory: whether the file
\* was opened, whether the call returned, the templates it returned and the
\* cache it left.
load_templates(templates_cache, files, yaml_file) ==
    IF Cached(templates_cache, yaml_file)
    THEN [read |-> FALSE, ok |-> TRUE, err |-> "",
          templates |-> templates_cache[yaml_file], cache |-> templates_cache]
    ELSE IF files[yaml_file].kind = "missing"
    THEN [read |-> FALSE, ok |-> FALSE, err |-> "FileNotFoundError",
          templates |-> << >>, cache |-> templates_cache]
    ELSE IF files[yaml_file].kind = "empty"
    THEN [read |-> TRUE, ok |-> FALSE, err |-> "AttributeError",
          templates |-> << >>, cache |-> templates_cache]
    ELSE [read |-> TRUE, ok |-> TRUE, err |-> "",
          templates |-> TemplatesOf(files[yaml_file].templates),
          cache |-> CachePut(templates_cache, yaml_file,
                             TemplatesOf(files[yaml_file].templates))]

\* get_template(yaml_file, task_id) given the outcome of its load_templates.
get_template(loaded, task_id) ==
    IF ~loaded.ok THEN loaded
    ELSE IF task_id \notin DOMAIN loaded.templates
    THEN [loaded EXCEPT !.ok = FALSE, !.err = "KeyError"]
    ELSE loaded

\* render(yaml_file, task_id, variables) given the outcome of its
\* get_template.
render(got, task_id) ==
    IF ~got.ok THEN got
    ELSE IF got.templates[task_id].template = ""
    THEN [got EXCEPT !.ok = FALSE, !.err = "ValueError"]
    ELSE got

\* The history entry of a call with outcome out.
CallEntry(op, yaml_file, out) ==
    [op |-> op, file |-> yaml_file, read |-> out.read, ok |-> out.ok,
     err |-> out.err, templates |-> out.templates,
     before |-> cache, after |-> out.cache, files |-> disk]

InitPrompts ==
    /\ disk \in [YamlFiles -> FileContents]
    /\ cache = << >>
    /\ plog = << >>
    /\ NoStructuring
    /\ heap = << >>
    /\ NoEditor
    /\ NoHelpers
    /\ NoMapping
    /\ NoSearch
    /\ NoBatch

Called(op, yaml_file, out) ==
    /\ cache' = out.cache
    /\ plog' = Append(plog, CallEntry(op, yaml_file, out))
    /\ UNCHANGED <<svars, heap, evars, hvars, mvars, fvars, bvars, disk>>

LoadTemplates ==
    /\ Len(plog) < MaxCalls
    /\ \E f \in YamlFiles : Called("load_templates", f, load_templates(cache, disk, f))

GetTemplate ==
    /\ Len(plog) < MaxCalls
    /\ \E f \in YamlFiles : \E t \in TaskIds :
          Called("get_template", f, get_template(load_templates(cache, disk, f), t))

Render ==
    /\ Len(plog) < MaxCalls
    /\ \E f \in YamlFiles : \E t \in TaskIds :
          Called("render", f,
                 render(get_template(load_templates(cache, disk, f), t), t))

ClearCache ==
    /\ Len(plog) < MaxCalls
    /\ cache' = << >>
    /\ plog' = Append(plog, [op |-> "clear_cache", file |-> "", read |-> FALSE,
                             ok |-> TRUE, err |-> "", templates |-> << >>,
                             before |-> cache, after |-> << >>, files |-> disk])
    /\ UNCHANGED <<svars, heap, evars, hvars, mvars, fvars, bvars, disk>>

\* Somebody edits, creates or removes a file of templates_dir.
FileChanges ==
    /\ Len(plog) < MaxCalls
    /\ \E f \in YamlFiles : \E c \in FileContents \ {disk[f]} :
          /\ disk' = [disk EXCEPT ![f] = c]
          /\ plog' = Append(plog, [op |-> "file_changes", file |-> f, read |-> FALSE,
                                   ok |-> TRUE, err |-> "", templates |-> << >>,
                                   before |-> cache, after |-> cache,
                                   files |-> disk'])
    /\ UNCHANGED <<svars, heap, evars, hvars, mvars, fvars, bvars, cache>>

NextPrompts ==
    \/ LoadTemplates
    \/ GetTemplate
    \/ Render
    \/ ClearCache
    \/ FileChanges

SpecPrompts == InitPrompts /\ [][NextPrompts]_vars

\* The calls that go through load_templates.
LoadingOps == {"load_templates", "get_template", "render"}

\* C30: after a load of file f that read it and cached its templates, no
\* later load_templates, get_template or render of f opens the file before
\* a clear_cache, and each gets the cached templates; a load that fails
\* leaves the cache as it was; a call for one file leaves the entries of the
\* other files alone; the first load of an existing file after clear_cache
\* reads it.
C30_FileReadOncePerCacheLifetime ==
    /\ \A i \in 1..Len(plog) : \A j \in 1..Len(plog) :
          (/\ i < j
           /\ plog[i].op \in LoadingOps /\ plog[j].op \in LoadingOps
           /\ plog[i].file = plog[j].file
           /\ plog[i].read /\ plog[i].file \in DOMAIN plog[i].after
           /\ \A k \in (i + 1)..(j - 1) : plog[k].op # "clear_cache")
          => /\ ~plog[j].read
             /\ plog[j].templates = plog[i].after[plog[i].file]
             /\ plog[j].after = plog[j].before
    /\ \A j \in 1..Len(plog) :
          plog[j].op \in LoadingOps =>
              /\ plog[j].err \in {"FileNotFoundError", "AttributeError"} =>
                    (plog[j].after = plog[j].before
                         /\ plog[j].file \notin DOMAIN plog[j].after)
              /\ \A g \in YamlFiles \ {plog[j].file} :
                    /\ g \in DOMAIN plog[j].after <=> g \in DOMAIN plog[j].before
                    /\ g \in DOMAIN plog[j].before =>
                          plog[j].after[g] = plog[j].before[g]
              /\ (j > 1 /\ plog[j - 1].op = "clear_cache"
                      /\ plog[j].files[plog[j].file].kind # "missing")
                 => plog[j].read
    /\ cache = IF plog = << >> THEN << >> ELSE plog[Len(plog)].after

\* A file with an empty template list was loaded, then changed on disk,
\* then loaded again: the second load did not read it and returned the
\* cached (empty) templates.
C30_SecondLoadUsedTheCache ==
    /\ Len(plog) = 3
    /\ plog[1].op = "load_templates" /\ plog[1].read /\ plog[1].ok
    /\ plog[1].templates = << >>
    /\ plog[2].op = "file_changes" /\ plog[2].file = plog[1].file
    /\ plog[3].op = "load_templates" /\ plog[3].file = plog[1].file
    /\ ~plog[3].read
    /\ plog[3].templates = << >>
    /\ disk[plog[1].file].kind = "yaml"
    /\ disk[plog[1].file].templates # << >>

=============================================================================
